---- MODULE Spec2Model ----
(***************************************************************************)
(* Falling-words mode of cli_typer (src/falling.go) together with the      *)
(* message dispatch of model.Update and the menu's Enter key (Spec), and   *)
(* four specifications of parts called on their own: the difficulty        *)
(* functions (SpecDifficulty), fallingTick with a spawn due next to words  *)
(* near the top (SpecPlacement), the day/night cycle (SpecCycle) and the   *)
(* classic typing test (SpecClassic).                                      *)
(*                                                                         *)
(* Representation:                                                         *)
(*   - a word's text is a sequence of one-character strings;               *)
(*   - y and fallingSpeed are float64 in the source; here they are counted *)
(*     in hundredths of a row (0.3 rows per tick is 30), so int(y) is      *)
(*     y \div 100;                                                         *)
(*   - fallingTarget keeps the source's 0-based index, -1 for "none";      *)
(*   - pendingTicks counts the fallingTickMsg timers that tea.Tick has     *)
(*     armed and the runtime has not yet delivered;                        *)
(*   - lastMsg is a history variable: the message Update processed last    *)
(*     and the function that handled it;                                   *)
(*   - cues is the sequence of playSound commands in the batch that the    *)
(*     last Update returned (the sound files are taken to have loaded);    *)
(*   - lastTick is a history variable: what the last fallingTick did with  *)
(*     its spawn attempt, whether the active target breached in it and     *)
(*     how many lives it took.                                             *)
(***************************************************************************)
EXTENDS Integers, Sequences, FiniteSets, TLC

VARIABLES state, gameMode, width, height,
          fallingWords, fallingInput, fallingTarget, fallingLives,
          fallingScore, fallingSpeed, fallingSpawnCD, fallingTicks,
          fallingGameOver, fallingCharsTyped, turretX, turretStartX,
          explosions, laser, correctWords, pendingTicks, lastMsg,
          cues, lastTick,
          probe, probeSpeed, probeInterval,
          cycleTick, palette, paletteNext, isDay,
          typingWords, typingInput, wordIndex, charIndex, timerStarted,
          celestial, grid, gridWrites

vars == <<state, gameMode, width, height,
          fallingWords, fallingInput, fallingTarget, fallingLives,
          fallingScore, fallingSpeed, fallingSpawnCD, fallingTicks,
          fallingGameOver, fallingCharsTyped, turretX, turretStartX,
          explosions, laser, correctWords, pendingTicks, lastMsg,
          cues, lastTick,
          probe, probeSpeed, probeInterval,
          cycleTick, palette, paletteNext, isDay,
          typingWords, typingInput, wordIndex, charIndex, timerStarted,
          celestial, grid, gridWrites>>

\* The fields initFallingState resets, plus the ones a tick or key may touch.
session == <<fallingWords, fallingInput, fallingTarget, fallingLives,
             fallingScore, fallingSpeed, fallingSpawnCD, fallingTicks,
             fallingGameOver, fallingCharsTyped, turretX, turretStartX,
             explosions, laser, correctWords>>

\* Inputs and outputs of the difficulty functions when they are called
\* directly (SpecDifficulty); constant in Spec.
probes == <<probe, probeSpeed, probeInterval>>

\* Input and outputs of the day/night functions when they are called
\* directly (SpecCycle); constant elsewhere.
cycleProbes == <<cycleTick, palette, paletteNext, isDay>>

\* The fields of the classic typing test: m.words, m.input, m.wordIndex,
\* m.charIndex, m.timerStarted.  SpecClassic follows them; the other
\* specifications follow the falling mode and leave them alone.
typing == <<typingWords, typingInput, wordIndex, charIndex, timerStarted>>

\* The frame viewFalling composes when it is called directly (SpecView): the
\* celestial body handed to renderCelestialOnGrid, the grid, and the cell
\* writes in the order they were made.  Constant elsewhere.
view == <<celestial, grid, gridWrites>>

----------------------------------------------------------------------------
\* Bounds of the model

MaxTicks == 67

MaxInput == 2

MaxScore == 1

MaxPending == 2

MaxProbe == 1700

\* ticks a directly built session runs (SpecPlacement)
PlaceRun == 2

\* greatest tick count handed to the day/night functions (SpecCycle)
MaxCycleTick == 1700

----------------------------------------------------------------------------
\* Program constants

edgePadding == 7

laserDuration == 3

explodeDuration == 4

wingWidth == 2

fullCycleTicks == 800

halfCycleTicks == 400

\* const edge = 0.08, in hundredths
edgePercent == 8

maxWordOverflow == 5

\* Words the word source may hand out: "no" and "on" of commonWords.
Vocabulary == { <<"n", "o">>, <<"o", "n">> }

\* Character keys the player may press.
Keys == {"n", "o"}

\* Terminal sizes a WindowSizeMsg may report: <<width, height>>.
Sizes == { <<16, 13>> }

\* Terminal sizes of the directly built sessions: 24 columns give eight spawn
\* columns, 7..14, for a two-letter word; 8 columns leave no room for the
\* padding; 0 by 0 is the size before the first tea.WindowSizeMsg.
PlaceSizes == { <<24, 13>>, <<8, 13>>, <<0, 0>> }

\* Rows (in hundredths) of the words of a directly built session: one tick
\* at speed 0.3 takes them to 0.6, to 3.0 (still checked by overlapsExisting)
\* and to 3.3 (no longer checked).
PlaceRows == {30, 270, 300}

\* Sizes a terminal is resized to during a session: one row more than the
\* built boards (boundary row 8 instead of 7) and a short, wider terminal
\* (boundary row at its floor of 5)
ResizeSizes == { <<24, 13>>, <<24, 14>>, <<30, 9>> }

\* Terminal sizes of the frames composed directly: not yet known (grid of
\* 5 rows and 20 columns, the floors) and 24 by 13 (7 rows, 24 columns)
ViewSizes == { <<0, 0>>, <<24, 13>> }

\* Word lists generateWords may hand to a classic test (two words instead of
\* 200)
ClassicWordLists == Vocabulary \X Vocabulary

\* Words, keys, terminal sizes and rows (in hundredths) of the boards that
\* are built directly (SpecBoard): "a" and "no" of commonWords; one tick at
\* speed 0.3 takes a word from row 6.8 or 6.9 to the boundary row 7 of a
\* terminal 13 rows high.
BoardVocabulary == { <<"a">>, <<"n", "o">> }

BoardKeys == {"a", "n"}

BoardSizes == { <<24, 13>> }

BoardRows == {300, 680, 690}

NoLaser == [x |-> -1, fromY |-> -1, toY |-> -1, ticks |-> 0]

----------------------------------------------------------------------------
\* Pure helpers

\* int(f) of a float64 counted in hundredths, f >= 0
IntRow(y) == y \div 100

\* int(float64(num)/float64(den)): Go's conversion truncates toward zero
TruncDiv(num, den) ==
    IF num >= 0 THEN num \div den ELSE -((-num) \div den)

playHeightOf(h) == IF h - 6 < 5 THEN 5 ELSE h - 6

leftEdge(fw) == fw.x - wingWidth

rightEdge(fw) == fw.x + Len(fw.word) + wingWidth

\* 0-based indexing as in the source
At(ws, t) == ws[t + 1]

ValidTarget(ws, t) == t >= 0 /\ t < Len(ws)

\* --- Difficulty scaling ---

\* the cap forgotten
fallingSpeedForTick_nocap(ticks) == 30 + (ticks \div 67) * 5

fallingSpeedForTick(ticks) ==
    LET speed == 30 + (ticks \div 67) * 5
    IN  IF speed > 150 THEN 150 ELSE speed

\* the floor forgotten
fallingSpawnInterval_nofloor(ticks) == 20 - (ticks \div 67) * 2

fallingSpawnInterval(ticks) ==
    LET interval == 20 - (ticks \div 67) * 2
    IN  IF interval < 7 THEN 7 ELSE interval

\* --- Effects (fallingTick, first half) ---

\* a sweep that keeps an explosion whose count has reached zero
RECURSIVE TickExplosions_keepZero(_)
TickExplosions_keepZero(es) ==
    IF es = <<>> THEN <<>>
    ELSE LET e == [Head(es) EXCEPT !.ticks = @ - 1]
         IN  IF e.ticks >= 0 THEN <<e>> \o TickExplosions_keepZero(Tail(es))
             ELSE TickExplosions_keepZero(Tail(es))

RECURSIVE TickExplosions(_)
TickExplosions(es) ==
    IF es = <<>> THEN <<>>
    ELSE LET e == [Head(es) EXCEPT !.ticks = @ - 1]
         IN  IF e.ticks > 0 THEN <<e>> \o TickExplosions(Tail(es))
             ELSE TickExplosions(Tail(es))

TickLaser(l) ==
    IF l = NoLaser THEN NoLaser
    ELSE IF l.ticks - 1 <= 0 THEN NoLaser
    ELSE [l EXCEPT !.ticks = @ - 1]

\* an advance that leaves the words where they are
Advance_still(ws, speed) == ws

Advance(ws, speed) == [i \in DOMAIN ws |-> [ws[i] EXCEPT !.y = @ + speed]]

\* --- Shield check (fallingTick, the loop over m.fallingWords) ---
\* Walks the advanced words from index i on.  The result tells whether the
\* loop returned early (over), and the lives, input, targetWord and survived
\* list at the point where it stopped.

\* a shield check that ends the game only below zero lives
RECURSIVE ShieldLoop_late(_, _, _, _, _, _, _)
ShieldLoop_late(ws, i, ph, lives, input, targetWord, survived) ==
    IF i > Len(ws)
    THEN [over |-> FALSE, lives |-> lives, input |-> input,
          targetWord |-> targetWord, survived |-> survived]
    ELSE IF IntRow(ws[i].y) >= ph
    THEN LET lives1 == lives - 1
             input1 == IF ws[i].active THEN <<>> ELSE input
             tw1    == IF ws[i].active THEN <<>> ELSE targetWord
         IN  IF lives1 < 0
             THEN [over |-> TRUE, lives |-> 0, input |-> input1,
                   targetWord |-> tw1, survived |-> survived]
             ELSE ShieldLoop_late(ws, i + 1, ph, lives1, input1, tw1, survived)
    ELSE ShieldLoop_late(ws, i + 1, ph, lives, input, targetWord,
                         Append(survived, ws[i]))

\* a shield check that takes the life but keeps the breached word
RECURSIVE ShieldLoop_keeps(_, _, _, _, _, _, _)
ShieldLoop_keeps(ws, i, ph, lives, input, targetWord, survived) ==
    IF i > Len(ws)
    THEN [over |-> FALSE, lives |-> lives, input |-> input,
          targetWord |-> targetWord, survived |-> survived]
    ELSE IF IntRow(ws[i].y) >= ph
    THEN LET lives1 == lives - 1
             input1 == IF ws[i].active THEN <<>> ELSE input
             tw1    == IF ws[i].active THEN <<>> ELSE targetWord
         IN  IF lives1 <= 0
             THEN [over |-> TRUE, lives |-> 0, input |-> input1,
                   targetWord |-> tw1, survived |-> survived]
             ELSE ShieldLoop_keeps(ws, i + 1, ph, lives1, input1, tw1,
                                   Append(survived, ws[i]))
    ELSE ShieldLoop_keeps(ws, i + 1, ph, lives, input, targetWord,
                          Append(survived, ws[i]))

RECURSIVE ShieldLoop(_, _, _, _, _, _, _)
ShieldLoop(ws, i, ph, lives, input, targetWord, survived) ==
    IF i > Len(ws)
    THEN [over |-> FALSE, lives |-> lives, input |-> input,
          targetWord |-> targetWord, survived |-> survived]
    ELSE IF IntRow(ws[i].y) >= ph
    THEN LET lives1 == lives - 1
             input1 == IF ws[i].active THEN <<>> ELSE input
             tw1    == IF ws[i].active THEN <<>> ELSE targetWord
         IN  IF lives1 <= 0
             THEN [over |-> TRUE, lives |-> 0, input |-> input1,
                   targetWord |-> tw1, survived |-> survived]
             ELSE ShieldLoop(ws, i + 1, ph, lives1, input1, tw1, survived)
    ELSE ShieldLoop(ws, i + 1, ph, lives, input, targetWord,
                    Append(survived, ws[i]))

\* a re-resolution that takes the first survivor for the target
ResolveTarget_first(ws, targetWord) ==
    IF targetWord = <<>> \/ ws = <<>> THEN -1 ELSE 0

\* a re-resolution that never finds the target again
ResolveTarget_lost(ws, targetWord) == -1

\* Re-resolution of the target index among the survivors: the first word
\* that is active and carries targetWord; -1 when there is none.
ResolveTarget(ws, targetWord) ==
    IF targetWord = <<>> THEN -1
    ELSE LET hits == {i \in DOMAIN ws :
                         ws[i].active /\ ws[i].word = targetWord}
         IN  IF hits = {} THEN -1
             ELSE (CHOOSE i \in hits : \A j \in hits : i <= j) - 1

\* --- Placement ---

\* an overlap test that lets the two spans touch
overlapsExisting_nogap(ws, word, x) ==
    LET newLeft  == x - wingWidth
        newRight == x + Len(word) + wingWidth
    IN  \E i \in DOMAIN ws :
            /\ ~(ws[i].y > 300)
            /\ newLeft < rightEdge(ws[i])
            /\ newRight > leftEdge(ws[i])

overlapsExisting(ws, word, x) ==
    LET newLeft  == x - wingWidth
        newRight == x + Len(word) + wingWidth
    IN  \E i \in DOMAIN ws :
            /\ ~(ws[i].y > 300)
            /\ newLeft < rightEdge(ws[i]) + 1
            /\ newRight > leftEdge(ws[i]) - 1

\* Columns rand.Intn(maxX-minX)+minX can return for this word.
SpawnColumns(w, word) ==
    LET minX  == edgePadding
        maxX0 == w - Len(word) - edgePadding
        maxX  == IF maxX0 <= minX THEN minX + 1 ELSE maxX0
    IN  minX .. (maxX - 1)

\* a word that enters one step below the top row
NewWord_low(word, x) ==
    [word |-> word, x |-> x, y |-> 30, typed |-> 0, active |-> FALSE]

NewWord(word, x) ==
    [word |-> word, x |-> x, y |-> 0, typed |-> 0, active |-> FALSE]

\* What spawnFallingWord can leave behind for a chosen word: the word at any
\* free column (one of the ten draws hit it), or nothing at all when every
\* one of the ten draws can hit an overlapping column.  placed tells which.
SpawnOutcomes(ws, w, word) ==
    { [words |-> Append(ws, NewWord(word, x)), placed |-> TRUE] :
          x \in {c \in SpawnColumns(w, word) : ~overlapsExisting(ws, word, c)} }
    \cup
    { [words |-> ws, placed |-> FALSE] :
          x \in {c \in SpawnColumns(w, word) : overlapsExisting(ws, word, c)} }

\* --- Targeting ---

\* findTarget that takes the first live word whatever its first character
findTarget_first(ws, firstChar) == IF ws = <<>> THEN -1 ELSE 0

\* findTarget that keeps the last candidate it sees instead of the lowest
findTarget_last(ws, firstChar) ==
    LET cand == {i \in DOMAIN ws :
                    ~ws[i].active /\ Len(ws[i].word) > 0
                    /\ ws[i].word[1] = firstChar}
    IN  IF cand = {} THEN -1
        ELSE (CHOOSE i \in cand : \A j \in cand : j <= i) - 1

\* The loop keeps the first index whose y is strictly greater than every
\* earlier candidate's: the greatest y, the earliest index on ties.
findTarget(ws, firstChar) ==
    LET cand == {i \in DOMAIN ws :
                    ~ws[i].active /\ Len(ws[i].word) > 0
                    /\ ws[i].word[1] = firstChar /\ ws[i].y > -100}
        best == {i \in cand : \A j \in cand :
                    ws[j].y < ws[i].y \/ (ws[j].y = ws[i].y /\ i <= j)}
    IN  IF cand = {} THEN -1 ELSE (CHOOSE i \in best : TRUE) - 1

\* a commit that records the first character but leaves the word inactive
CommitTarget_inactive(ws, t) == [ws EXCEPT ![t + 1].typed = 1]

\* lines 298-299
CommitTarget(ws, t) ==
    [ws EXCEPT ![t + 1].active = TRUE, ![t + 1].typed = 1]

SetTyped(ws, t, n) == [ws EXCEPT ![t + 1].typed = n]

\* a release that forgets to clear the active flag
ReleaseTarget_keepActive(ws, t) == [ws EXCEPT ![t + 1].typed = 0]

\* lines 281-282
ReleaseTarget(ws, t) ==
    [ws EXCEPT ![t + 1].active = FALSE, ![t + 1].typed = 0]

\* a removal that drops the word after the target when there is one
RemoveAt_next(ws, t) ==
    LET k == IF t + 2 <= Len(ws) THEN t + 2 ELSE t + 1
    IN  SubSeq(ws, 1, k - 1) \o SubSeq(ws, k + 1, Len(ws))

\* append(m.fallingWords[:t], m.fallingWords[t+1:]...)
RemoveAt(ws, t) == SubSeq(ws, 1, t) \o SubSeq(ws, t + 2, Len(ws))

wordCenter(fw) == fw.x + (Len(fw.word) \div 2)

\* --- Day/night cycle ---
\* An rgb value is a triple of channels.  The source computes in float64;
\* here a blended colour is kept exactly, as numerators over a common
\* denominator, until toHex rounds it.

dawnKey ==
    [dim |-> <<138, 110, 66>>, text |-> <<212, 184, 150>>,
     alien |-> <<156, 118, 68>>, shield |-> <<196, 154, 86>>,
     accent |-> <<226, 168, 60>>, hint |-> <<138, 110, 66>>,
     bg |-> <<180, 140, 80>>]

dayKey ==
    [dim |-> <<140, 140, 155>>, text |-> <<20, 20, 30>>,
     alien |-> <<50, 30, 110>>, shield |-> <<20, 60, 140>>,
     accent |-> <<130, 80, 0>>, hint |-> <<140, 140, 155>>,
     bg |-> <<255, 255, 255>>]

sunsetKey ==
    [dim |-> <<139, 64, 73>>, text |-> <<212, 150, 122>>,
     alien |-> <<160, 72, 88>>, shield |-> <<196, 90, 62>>,
     accent |-> <<220, 130, 50>>, hint |-> <<139, 64, 73>>,
     bg |-> <<180, 100, 50>>]

nightKey ==
    [dim |-> <<70, 80, 110>>, text |-> <<180, 190, 220>>,
     alien |-> <<90, 100, 160>>, shield |-> <<100, 130, 190>>,
     accent |-> <<140, 170, 220>>, hint |-> <<70, 80, 110>>,
     bg |-> <<0, 0, 0>>]

clamp(v, lo, hi) == IF v < lo THEN lo ELSE IF v > hi THEN hi ELSE v

\* math.Round(n / d) for n >= 0, d > 0: halves round away from zero
RoundDiv(n, d) == (2 * n + d) \div (2 * d)

\* lerpRGB(a, b, num/den): the channels as numerators over den
lerpRGB(a, b, num, den) ==
    LET t == clamp(num, 0, den)
    IN  [i \in 1..3 |-> a[i] * den + (b[i] - a[i]) * t]

\* toHex of a colour given as numerators over den: the three channel values
\* that "#%02x%02x%02x" prints
toHex(c, den) == [i \in 1..3 |-> clamp(RoundDiv(c[i], den), 0, 255)]

\* The seven colours of a palette, each blended from its two keyframes
Blend(from, to, num, den) ==
    [f \in DOMAIN from |-> toHex(lerpRGB(from[f], to[f], num, den), den)]

\* a position in the cycle that is never wrapped
cyclePos_nowrap(tick) == tick

\* pos := tick % fullCycleTicks
cyclePos(tick) == tick % fullCycleTicks

\* isDay of getCelestialBody: the body is the sun
celestialIsDay(tick) == cyclePos(tick) < halfCycleTicks

\* progress is q / halfCycleTicks; progress < edge is 100 q < 8 * 400, and
\* t = progress / edge, or (progress - (1 - edge)) / edge, is num / den.
cycleColors(tick) ==
    LET pos  == cyclePos(tick)
        day  == pos < halfCycleTicks
        q    == IF day THEN pos ELSE pos - halfCycleTicks
        den  == edgePercent * halfCycleTicks
        lead == 100 * q < edgePercent * halfCycleTicks
        body == 100 * q < (100 - edgePercent) * halfCycleTicks
        numLead == 100 * q
        numTail == 100 * q - (100 - edgePercent) * halfCycleTicks
    IN  IF day
        THEN IF lead THEN Blend(dawnKey, dayKey, numLead, den)
             ELSE IF body THEN Blend(dayKey, dayKey, 0, den)
             ELSE Blend(dayKey, sunsetKey, numTail, den)
        ELSE IF lead THEN Blend(sunsetKey, nightKey, numLead, den)
             ELSE IF body THEN Blend(nightKey, nightKey, 0, den)
             ELSE Blend(nightKey, dawnKey, numTail, den)

\* lastTick of a step that is not a running tick
NoTick == [spawn |-> "none", lostTarget |-> FALSE, livesLost |-> 0]

\* one cue per tick: the game-over cue replaces the hit cue
TickCues_single(livesBefore, lives, over) ==
    IF over THEN <<"gameOver">>
    ELSE IF lives < livesBefore THEN <<"hit">> ELSE <<>>

\* one hit cue for every life the tick took
TickCues_perLife(livesBefore, lives, over) ==
    [i \in 1..(livesBefore - lives) |-> "hit"]
    \o (IF over THEN <<"gameOver">> ELSE <<>>)

\* The playSound commands updateFalling appends after fallingTick
\* (lines 101-107)
TickCues(livesBefore, lives, over) ==
    (IF lives < livesBefore THEN <<"hit">> ELSE <<>>)
    \o (IF over THEN <<"gameOver">> ELSE <<>>)

\* type: the message; rune: msg.Runes[0] of a KeyRunes; by: the function that
\* finished handling it
Msg(type, rune, by) == [type |-> type, rune |-> rune, by |-> by]

----------------------------------------------------------------------------
\* The day/night functions have not been called
CycleUnset ==
    /\ cycleTick = 0
    /\ palette = <<>>
    /\ paletteNext = <<>>
    /\ isDay = FALSE

\* No celestial body (m.dayCycle is off)
NoBody == [x |-> -1, y |-> -1, isDay |-> FALSE, shown |-> FALSE]

\* viewFalling has not been called
ViewUnset ==
    /\ celestial = NoBody
    /\ grid = <<>>
    /\ gridWrites = <<>>

\* No classic test has been set up: Go's zero values
TypingUnset ==
    /\ typingWords = <<>>
    /\ typingInput = <<>>
    /\ wordIndex = 0
    /\ charIndex = 0
    /\ timerStarted = FALSE

\* State after tea.NewProgram(initialModel()): every field is Go's zero value
\* except state (stateMenu); no timer is armed (Init returns nil).

Init ==
    /\ state = "menu"
    /\ gameMode = "classic"
    /\ width = 0
    /\ height = 0
    /\ fallingWords = <<>>
    /\ fallingInput = <<>>
    /\ fallingTarget = 0
    /\ fallingLives = 0
    /\ fallingScore = 0
    /\ fallingSpeed = 0
    /\ fallingSpawnCD = 0
    /\ fallingTicks = 0
    /\ fallingGameOver = FALSE
    /\ fallingCharsTyped = 0
    /\ turretX = 0
    /\ turretStartX = 0
    /\ explosions = <<>>
    /\ laser = NoLaser
    /\ correctWords = 0
    /\ pendingTicks = 0
    /\ lastMsg = Msg("none", "", "none")
    /\ cues = <<>>
    /\ lastTick = NoTick
    /\ probe = 0
    /\ probeSpeed = -1
    /\ probeInterval = -1
    /\ CycleUnset
    /\ TypingUnset
    /\ ViewUnset

\* An Update that returns no playSound command and runs no fallingTick
Quiet == cues' = <<>> /\ lastTick' = NoTick

\* a restart that leaves the effects of the previous game on screen
StartSession_keepEffects(msg) ==
    /\ state' = "falling"
    /\ fallingWords' = <<>>
    /\ fallingInput' = <<>>
    /\ fallingTarget' = -1
    /\ fallingLives' = 3
    /\ fallingScore' = 0
    /\ fallingSpeed' = 30
    /\ fallingSpawnCD' = 0
    /\ fallingTicks' = 0
    /\ fallingGameOver' = FALSE
    /\ fallingCharsTyped' = 0
    /\ turretX' = width \div 2
    /\ pendingTicks' = pendingTicks + 1
    /\ lastMsg' = msg
    /\ Quiet
    /\ UNCHANGED <<gameMode, width, height, turretStartX, correctWords, probes,
                   cycleProbes, typing, explosions, laser, view>>

\* a restart that begins with the forced cooldown instead of a spawn
StartSession_cooldown(msg) ==
    /\ state' = "falling"
    /\ fallingWords' = <<>>
    /\ fallingInput' = <<>>
    /\ fallingTarget' = -1
    /\ fallingLives' = 3
    /\ fallingScore' = 0
    /\ fallingSpeed' = 30
    /\ fallingSpawnCD' = 3
    /\ fallingTicks' = 0
    /\ fallingGameOver' = FALSE
    /\ fallingCharsTyped' = 0
    /\ turretX' = width \div 2
    /\ explosions' = <<>>
    /\ laser' = NoLaser
    /\ pendingTicks' = pendingTicks + 1
    /\ lastMsg' = msg
    /\ Quiet
    /\ UNCHANGED <<gameMode, width, height, turretStartX, correctWords, probes,
                   cycleProbes, typing, view>>

\* a restart that keeps the speed the abandoned session had reached
StartSession_keepSpeed(msg) ==
    /\ state' = "falling"
    /\ fallingWords' = <<>>
    /\ fallingInput' = <<>>
    /\ fallingTarget' = -1
    /\ fallingLives' = 3
    /\ fallingScore' = 0
    /\ fallingSpeed' = IF fallingTicks = 0 THEN 30 ELSE fallingSpeed
    /\ fallingSpawnCD' = 0
    /\ fallingTicks' = 0
    /\ fallingGameOver' = FALSE
    /\ fallingCharsTyped' = 0
    /\ turretX' = width \div 2
    /\ explosions' = <<>>
    /\ laser' = NoLaser
    /\ pendingTicks' = pendingTicks + 1
    /\ lastMsg' = msg
    /\ Quiet
    /\ UNCHANGED <<gameMode, width, height, turretStartX, correctWords, probes,
                   cycleProbes, typing, view>>

\* initFallingState followed by the fallingTickCmd its three callers return
StartSession(msg) ==
    /\ state' = "falling"
    /\ fallingWords' = <<>>
    /\ fallingInput' = <<>>
    /\ fallingTarget' = -1
    /\ fallingLives' = 3
    /\ fallingScore' = 0
    /\ fallingSpeed' = 30
    /\ fallingSpawnCD' = 0
    /\ fallingTicks' = 0
    /\ fallingGameOver' = FALSE
    /\ fallingCharsTyped' = 0
    /\ turretX' = width \div 2
    /\ explosions' = <<>>
    /\ laser' = NoLaser
    /\ pendingTicks' = pendingTicks + 1
    /\ lastMsg' = msg
    /\ Quiet
    /\ UNCHANGED <<gameMode, width, height, turretStartX, correctWords, probes,
                   cycleProbes, typing, view>>

----------------------------------------------------------------------------
\* model.Update: messages handled before the per-screen dispatch

\* a resize that also moves the turret to the new centre column
Resize_recentre(w, h) ==
    /\ <<w, h>> # <<width, height>>
    /\ width' = w
    /\ height' = h
    /\ turretX' = w \div 2
    /\ lastMsg' = Msg("WindowSize", "", "Update")
    /\ Quiet
    /\ UNCHANGED <<state, gameMode, fallingWords, fallingInput, fallingTarget,
                   fallingLives, fallingScore, fallingSpeed, fallingSpawnCD,
                   fallingTicks, fallingGameOver, fallingCharsTyped,
                   turretStartX, explosions, laser, correctWords,
                   pendingTicks, probes, cycleProbes, typing, view>>

\* tea.WindowSizeMsg; the terminal reports a size when it changes
Resize(w, h) ==
    /\ <<w, h>> # <<width, height>>
    /\ width' = w
    /\ height' = h
    /\ lastMsg' = Msg("WindowSize", "", "Update")
    /\ Quiet
    /\ UNCHANGED <<state, gameMode, session, pendingTicks, probes, cycleProbes, typing,
                   view>>

----------------------------------------------------------------------------
\* updateMenu

\* The runtime sends the first WindowSizeMsg at start-up, before the player
\* can press a key on the menu.
SizeKnown == width # 0

\* left/right (or h/l) on row 0 flips the game mode
MenuToggleGameMode ==
    /\ state = "menu"
    /\ SizeKnown
    /\ gameMode' = IF gameMode = "classic" THEN "falling" ELSE "classic"
    /\ lastMsg' = Msg("KeyLeftRight", "", "updateMenu")
    /\ cues' = <<"click">>
    /\ lastTick' = NoTick
    /\ UNCHANGED <<state, width, height, session, pendingTicks, probes,
                   cycleProbes, typing, view>>

\* enter with falling mode selected
MenuEnterFalling ==
    /\ state = "menu"
    /\ SizeKnown
    /\ gameMode = "falling"
    /\ pendingTicks < MaxPending
    /\ StartSession(Msg("KeyEnter", "", "updateMenu"))

\* enter with classic mode selected: initTypingState touches no falling
\* field; the classic fields it sets are followed from ClassicInit on
MenuEnterClassic ==
    /\ state = "menu"
    /\ SizeKnown
    /\ gameMode = "classic"
    /\ state' = "typing"
    /\ lastMsg' = Msg("KeyEnter", "", "updateMenu")
    /\ Quiet
    /\ UNCHANGED <<gameMode, width, height, session, pendingTicks, probes,
                   cycleProbes, typing, view>>

\* processKeypress, tea.KeyEsc on the classic screen
TypingEsc ==
    /\ state = "typing"
    /\ state' = "menu"
    /\ lastMsg' = Msg("KeyEsc", "", "processKeypress")
    /\ Quiet
    /\ UNCHANGED <<gameMode, width, height, session, pendingTicks, probes,
                   cycleProbes, typing, view>>

----------------------------------------------------------------------------
\* Delivery of a fallingTickMsg

\* a tick outside the falling screen that is scheduled again
TickOffScreen_rearm ==
    /\ pendingTicks > 0
    /\ state # "falling"
    /\ pendingTicks' = pendingTicks
    /\ lastMsg' = Msg("fallingTick", "",
                    IF state = "menu" THEN "updateMenu" ELSE "updateTyping")
    /\ Quiet
    /\ UNCHANGED <<state, gameMode, width, height, session, probes, cycleProbes, typing,
                   view>>

\* updateMenu and updateTyping return (m, nil) for a message that is not
\* theirs: the tick is consumed and nothing is re-armed.
TickOffScreen ==
    /\ pendingTicks > 0
    /\ state # "falling"
    /\ pendingTicks' = pendingTicks - 1
    /\ lastMsg' = Msg("fallingTick", "",
                    IF state = "menu" THEN "updateMenu" ELSE "updateTyping")
    /\ Quiet
    /\ UNCHANGED <<state, gameMode, width, height, session, probes, cycleProbes, typing,
                   view>>

\* updateFalling, lines 96-98
TickAfterGameOver ==
    /\ pendingTicks > 0
    /\ state = "falling"
    /\ fallingGameOver
    /\ pendingTicks' = pendingTicks - 1
    /\ lastMsg' = Msg("fallingTick", "", "updateFalling")
    /\ Quiet
    /\ UNCHANGED <<state, gameMode, width, height, session, probes, cycleProbes, typing,
                   view>>

\* the game-over return forgotten: a tick is always re-armed
TickCmds_always(over) == 1

\* Number of fallingTickCmd in the batch updateFalling returns (lines 105-110)
TickCmds(over) == IF over THEN 0 ELSE 1

\* updateFalling for a fallingTickMsg while the game runs: fallingTick and
\* the commands that follow it.
FallingTick ==
    /\ pendingTicks > 0
    /\ state = "falling"
    /\ ~fallingGameOver
    /\ fallingTicks < MaxTicks
    /\ LET ticks1 == fallingTicks + 1
           moved  == Advance(fallingWords, fallingSpeed)
           ph     == playHeightOf(height)
           tw0    == IF ValidTarget(moved, fallingTarget)
                     THEN At(moved, fallingTarget).word ELSE <<>>
           r      == ShieldLoop(moved, 1, ph, fallingLives, fallingInput,
                                tw0, <<>>)
           lost   == tw0 # <<>> /\ r.targetWord = <<>>
       IN  /\ fallingTicks' = ticks1
           /\ cues' = TickCues(fallingLives, r.lives, r.over)
           /\ explosions' = TickExplosions(explosions)
           /\ laser' = TickLaser(laser)
           /\ fallingLives' = r.lives
           /\ pendingTicks' = pendingTicks - 1 + TickCmds(r.over)
           /\ IF r.over
              THEN \* early return: m.fallingWords is the advanced list
                   /\ fallingWords' = moved
                   /\ fallingInput' = r.input
                   /\ fallingGameOver' = TRUE
                   /\ correctWords' = fallingScore
                   /\ lastTick' = [spawn |-> "none", lostTarget |-> lost,
                                   livesLost |-> fallingLives - r.lives]
                   /\ UNCHANGED <<fallingTarget, fallingSpawnCD, fallingSpeed>>
              ELSE LET t1  == ResolveTarget(r.survived, r.targetWord)
                       in1 == IF r.targetWord # <<>> /\ t1 = -1
                              THEN <<>> ELSE r.input
                       cd1 == fallingSpawnCD - 1
                   IN  /\ fallingTarget' = t1
                       /\ fallingInput' = in1
                       /\ fallingSpeed' = fallingSpeedForTick(ticks1)
                       /\ IF cd1 <= 0
                          THEN /\ \E word \in Vocabulary :
                                  \E o \in SpawnOutcomes(r.survived, width, word) :
                                      /\ fallingWords' = o.words
                                      /\ lastTick' =
                                           [spawn |-> IF o.placed THEN "placed"
                                                      ELSE "failed",
                                            lostTarget |-> lost,
                                            livesLost |-> fallingLives - r.lives]
                               /\ fallingSpawnCD' = fallingSpawnInterval(ticks1)
                          ELSE /\ fallingWords' = r.survived
                               /\ fallingSpawnCD' = cd1
                               /\ lastTick' = [spawn |-> "none",
                                               lostTarget |-> lost,
                                               livesLost |->
                                                   fallingLives - r.lives]
                       /\ UNCHANGED <<fallingGameOver, correctWords>>
    /\ lastMsg' = Msg("fallingTick", "", "fallingTick")
    /\ UNCHANGED <<state, gameMode, width, height, fallingScore,
                   fallingCharsTyped, turretX, turretStartX, probes,
                   cycleProbes, typing, view>>

----------------------------------------------------------------------------
\* Keys on the falling screen

\* handleFallingKey and handleGameOverKey, tea.KeyEsc
FallingEsc ==
    /\ state = "falling"
    /\ state' = "menu"
    /\ lastMsg' = Msg("KeyEsc", "",
                    IF fallingGameOver THEN "handleGameOverKey"
                    ELSE "handleFallingKey")
    /\ Quiet
    /\ UNCHANGED <<gameMode, width, height, session, pendingTicks, probes,
                   cycleProbes, typing, view>>

\* handleFallingKey, tea.KeyTab
FallingTab ==
    /\ state = "falling"
    /\ ~fallingGameOver
    /\ pendingTicks < MaxPending
    /\ StartSession(Msg("KeyTab", "", "handleFallingKey"))

\* a restart after game over that carries the score over
GameOverRestart_keepScore(type) ==
    /\ state = "falling"
    /\ fallingGameOver
    /\ pendingTicks < MaxPending
    /\ fallingWords' = <<>>
    /\ fallingInput' = <<>>
    /\ fallingTarget' = -1
    /\ fallingLives' = 3
    /\ fallingSpeed' = 30
    /\ fallingSpawnCD' = 0
    /\ fallingTicks' = 0
    /\ fallingGameOver' = FALSE
    /\ fallingCharsTyped' = 0
    /\ turretX' = width \div 2
    /\ explosions' = <<>>
    /\ laser' = NoLaser
    /\ pendingTicks' = pendingTicks + 1
    /\ lastMsg' = Msg(type, "", "handleGameOverKey")
    /\ Quiet
    /\ UNCHANGED <<state, gameMode, width, height, fallingScore, turretStartX,
                   correctWords, probes, cycleProbes, typing, view>>

\* handleGameOverKey, tea.KeyTab and tea.KeyEnter
GameOverRestart(type) ==
    /\ state = "falling"
    /\ fallingGameOver
    /\ pendingTicks < MaxPending
    /\ StartSession(Msg(type, "", "handleGameOverKey"))

\* Keys handleGameOverKey has no case for
IgnoredKeys ==
    { Msg("KeyBackspace", "", "handleGameOverKey"),
      Msg("KeySpace", "", "handleGameOverKey") }
    \cup { Msg("KeyRunes", c, "handleGameOverKey") : c \in Keys }

\* a key after game over that also schedules a tick
GameOverIgnoredKey_rearm(msg) ==
    /\ state = "falling"
    /\ fallingGameOver
    /\ pendingTicks < MaxPending
    /\ pendingTicks' = pendingTicks + 1
    /\ lastMsg' = msg
    /\ Quiet
    /\ UNCHANGED <<state, gameMode, width, height, session, probes,
                   cycleProbes, typing, view>>

\* handleGameOverKey, the final return m, nil (line 383)
GameOverIgnoredKey(msg) ==
    /\ state = "falling"
    /\ fallingGameOver
    /\ lastMsg' = msg
    /\ Quiet
    /\ UNCHANGED <<state, gameMode, width, height, session, pendingTicks, probes,
                   cycleProbes, typing, view>>

\* handleFallingKey, tea.KeyBackspace
FallingBackspace ==
    /\ state = "falling"
    /\ ~fallingGameOver
    /\ IF Len(fallingInput) > 0
       THEN LET in1 == SubSeq(fallingInput, 1, Len(fallingInput) - 1)
                ws1 == IF ValidTarget(fallingWords, fallingTarget)
                       THEN SetTyped(fallingWords, fallingTarget, Len(in1))
                       ELSE fallingWords
                rel == Len(in1) = 0 /\ ValidTarget(ws1, fallingTarget)
            IN  /\ fallingInput' = in1
                /\ fallingWords' = IF rel THEN ReleaseTarget(ws1, fallingTarget)
                                   ELSE ws1
                /\ fallingTarget' = IF rel THEN -1 ELSE fallingTarget
       ELSE UNCHANGED <<fallingInput, fallingWords, fallingTarget>>
    /\ lastMsg' = Msg("KeyBackspace", "", "handleFallingKey")
    /\ Quiet
    /\ UNCHANGED <<state, gameMode, width, height, fallingLives, fallingScore,
                   fallingSpeed, fallingSpawnCD, fallingTicks, fallingGameOver,
                   fallingCharsTyped, turretX, turretStartX, explosions, laser,
                   correctWords, pendingTicks, probes, cycleProbes, typing,
                   view>>

\* handleFallingKey, tea.KeySpace
FallingSpace ==
    /\ state = "falling"
    /\ ~fallingGameOver
    /\ lastMsg' = Msg("KeySpace", "", "handleFallingKey")
    /\ Quiet
    /\ UNCHANGED <<state, gameMode, width, height, session, pendingTicks, probes,
                   cycleProbes, typing, view>>

\* handleFallingKey, tea.KeyRunes with msg.Runes[0] = char
FallingRunes(char) ==
    /\ state = "falling"
    /\ ~fallingGameOver
    /\ Len(fallingInput) < MaxInput
    /\ fallingScore < MaxScore
    /\ LET in1   == Append(fallingInput, char)
           found == findTarget(fallingWords, char)
           t1    == IF fallingTarget = -1 THEN found ELSE fallingTarget
           ws1   == IF fallingTarget = -1
                    THEN IF found >= 0 THEN CommitTarget(fallingWords, found)
                         ELSE fallingWords
                    ELSE IF fallingTarget < Len(fallingWords)
                    THEN SetTyped(fallingWords, fallingTarget, Len(in1))
                    ELSE fallingWords
           start1 == IF fallingTarget = -1 /\ found >= 0
                     THEN turretX ELSE turretStartX
           valid == ValidTarget(ws1, t1)
           fw    == At(ws1, t1)
           tx1   == IF valid /\ Len(fw.word) > 0
                    THEN start1 + TruncDiv(Len(in1) * (wordCenter(fw) - start1),
                                           Len(fw.word))
                    ELSE turretX
       IN  /\ turretStartX' = start1
           /\ IF valid /\ in1 = fw.word
              THEN /\ laser' = [x |-> wordCenter(fw),
                                fromY |-> playHeightOf(height),
                                toY |-> IntRow(fw.y) - 1,
                                ticks |-> laserDuration]
                   /\ explosions' = Append(explosions,
                                       [x |-> wordCenter(fw), y |-> IntRow(fw.y),
                                        ticks |-> explodeDuration])
                   /\ turretX' = wordCenter(fw)
                   /\ fallingScore' = fallingScore + 1
                   /\ fallingCharsTyped' = fallingCharsTyped + Len(fw.word)
                   /\ fallingWords' = RemoveAt(ws1, t1)
                   /\ fallingTarget' = -1
                   /\ fallingInput' = <<>>
                   /\ cues' = <<"destroy">>
              ELSE /\ fallingWords' = ws1
                   /\ fallingTarget' = t1
                   /\ fallingInput' = in1
                   /\ turretX' = tx1
                   /\ cues' = <<>>
                   /\ UNCHANGED <<laser, explosions, fallingScore,
                                  fallingCharsTyped>>
    /\ lastMsg' = Msg("KeyRunes", char, "handleFallingKey")
    /\ lastTick' = NoTick
    /\ UNCHANGED <<state, gameMode, width, height, fallingLives, fallingSpeed,
                   fallingSpawnCD, fallingTicks, fallingGameOver, correctWords,
                   pendingTicks, probes, cycleProbes, typing, view>>

----------------------------------------------------------------------------
Next ==
    \/ \E sz \in Sizes : Resize(sz[1], sz[2])
    \/ MenuToggleGameMode
    \/ MenuEnterFalling
    \/ MenuEnterClassic
    \/ TypingEsc
    \/ TickOffScreen
    \/ TickAfterGameOver
    \/ FallingTick
    \/ FallingEsc
    \/ FallingTab
    \/ \E type \in {"KeyTab", "KeyEnter"} : GameOverRestart(type)
    \/ \E msg \in IgnoredKeys : GameOverIgnoredKey(msg)
    \/ FallingBackspace
    \/ FallingSpace
    \/ \E char \in Keys : FallingRunes(char)

Spec == Init /\ [][Next]_vars

TypeOK ==
    /\ state \in {"menu", "typing", "falling", "results"}
    /\ fallingLives \in 0..3
    /\ pendingTicks \in 0..MaxPending

----------------------------------------------------------------------------
\* Properties

ActiveIdx(ws) == {i \in DOMAIN ws : ws[i].active}

\* The words of ws that are at or past the boundary row ph
Breached(ws, ph) == {i \in DOMAIN ws : IntRow(ws[i].y) >= ph}

\* The step handled a fallingTickMsg in fallingTick
TickStep == lastMsg' = Msg("fallingTick", "", "fallingTick")

RunesStep(c) == lastMsg' = Msg("KeyRunes", c, "handleFallingKey")

BackspaceStep == lastMsg' = Msg("KeyBackspace", "", "handleFallingKey")

\* C1: in every reachable state at most one word of the live word list is
\* active.
C1_AtMostOneActive == Cardinality(ActiveIdx(fallingWords)) <= 1

\* C1 witness: a word is the committed target while another word is live.
C1_Witness ==
    /\ Len(fallingWords) >= 2
    /\ ActiveIdx(fallingWords) # {}
    /\ ~fallingGameOver

\* C2: in every reachable state, the one left by the game-ending tick
\* included, no live word is active while the input buffer is empty.
C2_NoActiveWithEmptyInput ==
    fallingInput = <<>> => ActiveIdx(fallingWords) = {}

\* C3: at every point of an execution at most one simulation tick is
\* scheduled and not yet processed.
C3_AtMostOnePendingTick == pendingTicks <= 1

\* C4: in every tick, each word whose row after advancing is at or past the
\* boundary row takes exactly one life and is absent from the live list when
\* the tick finishes.
C4_BreachTakesLifeAndRemoves ==
    [][TickStep =>
          LET ph == playHeightOf(height)
              moved == Advance(fallingWords, fallingSpeed)
          IN  /\ fallingLives' = fallingLives - Cardinality(Breached(moved, ph))
              /\ Breached(fallingWords', ph) = {}]_vars

\* C5: the tick that sets gameOver re-arms no tick; a tick message processed
\* while gameOver is true changes no session field and re-arms no tick;
\* gameOver, once true, stays true until a restart begins a new session, so
\* it turns true at most once per session.
C5_GameOverIsTerminal ==
    [][/\ (~fallingGameOver /\ fallingGameOver')
            => pendingTicks' = pendingTicks - 1
       /\ (fallingGameOver /\ lastMsg'.type = "fallingTick")
            => (UNCHANGED session /\ pendingTicks' = pendingTicks - 1)
       /\ (fallingGameOver /\ ~fallingGameOver')
            => /\ lastMsg'.type \in {"KeyTab", "KeyEnter"}
               /\ fallingTicks' = 0 /\ fallingLives' = 3
               /\ fallingWords' = <<>>]_vars

\* C5 witness: the game is over and updateFalling has just discarded a tick
\* message that was still in flight.
C5_Witness ==
    /\ fallingGameOver
    /\ state = "falling"
    /\ lastMsg = Msg("fallingTick", "", "updateFalling")

\* The target a character key c ends up with before the completion check
TargetAfterKey(c) ==
    IF fallingTarget = -1 THEN findTarget(fallingWords, c) ELSE fallingTarget

\* C6: when a character key makes the input buffer equal to the target's
\* text, exactly that word leaves the live list (the others keep their
\* values and order), score grows by one, one explosion is appended, the
\* laser slot is set, and target and input buffer are cleared.
C6_CompletionDestroysTarget ==
    [][\A c \in Keys :
          LET t == TargetAfterKey(c)
          IN  ( /\ RunesStep(c)
                /\ ValidTarget(fallingWords, t)
                /\ Append(fallingInput, c) = At(fallingWords, t).word )
              => /\ Len(fallingWords') = Len(fallingWords) - 1
                 /\ \A i \in DOMAIN fallingWords' :
                        fallingWords'[i] =
                            IF i <= t THEN fallingWords[i] ELSE fallingWords[i + 1]
                 /\ fallingScore' = fallingScore + 1
                 /\ Len(explosions') = Len(explosions) + 1
                 /\ SubSeq(explosions', 1, Len(explosions)) = explosions
                 /\ explosions'[Len(explosions')].ticks = explodeDuration
                 /\ laser' # NoLaser
                 /\ laser'.ticks = laserDuration
                 /\ fallingTarget' = -1
                 /\ fallingInput' = <<>>]_vars

\* C6 witness: a word has just been destroyed by typing while another word
\* is still falling.
C6_Witness ==
    /\ lastMsg.type = "KeyRunes"
    /\ fallingScore >= 1
    /\ fallingInput = <<>>
    /\ laser # NoLaser /\ laser.ticks = laserDuration
    /\ explosions # <<>>
    /\ Len(fallingWords) >= 1

\* Non-active words starting with c
Candidates(ws, c) ==
    {i \in DOMAIN ws : ~ws[i].active /\ Len(ws[i].word) > 0 /\ ws[i].word[1] = c}

\* C7: a character key that arrives with no target commits the non-active
\* word starting with that character whose row is greatest (the earliest in
\* the list on ties): it becomes active with typed = 1 and the turret anchor
\* becomes the current turret position.  With no such word nothing is
\* committed.
C7_LowestMatchingWordIsCommitted ==
    [][\A c \in Keys :
          (RunesStep(c) /\ fallingTarget = -1)
          => LET cand == Candidates(fallingWords, c)
             IN  IF cand = {}
                 THEN fallingTarget' = -1 /\ fallingWords' = fallingWords
                 ELSE \E i \in cand :
                        /\ \A j \in cand : fallingWords[j].y <= fallingWords[i].y
                        /\ \A j \in cand :
                              fallingWords[j].y = fallingWords[i].y => i <= j
                        /\ turretStartX' = turretX
                        /\ \/ /\ fallingTarget' = i - 1
                              /\ fallingWords' =
                                   [fallingWords EXCEPT ![i].active = TRUE,
                                                        ![i].typed = 1]
                           \/ /\ fallingWords[i].word = <<c>>
                              /\ fallingInput = <<>>
                              /\ fallingTarget' = -1
                              /\ Len(fallingWords') = Len(fallingWords) - 1]_vars

\* C7 witness: a key has just committed a target although a second word
\* with the same first character was live.
C7_Witness ==
    /\ lastMsg.type = "KeyRunes"
    /\ ValidTarget(fallingWords, fallingTarget)
    /\ At(fallingWords, fallingTarget).typed = 1
    /\ \E j \in DOMAIN fallingWords :
          /\ j # fallingTarget + 1
          /\ fallingWords[j].word[1] = lastMsg.rune

\* C8: Backspace on a non-empty buffer removes exactly its last character;
\* when that empties the buffer and a target exists, the target word gets
\* active = false and typed = 0 and the target index becomes -1.  Backspace
\* on an empty buffer changes nothing.
C8_Backspace ==
    [][BackspaceStep =>
          IF fallingInput = <<>>
          THEN UNCHANGED <<session, pendingTicks, state>>
          ELSE /\ fallingInput' = SubSeq(fallingInput, 1, Len(fallingInput) - 1)
               /\ (Len(fallingInput) = 1 /\ ValidTarget(fallingWords, fallingTarget))
                    => /\ fallingTarget' = -1
                       /\ ~fallingWords'[fallingTarget + 1].active
                       /\ fallingWords'[fallingTarget + 1].typed = 0
                       /\ Len(fallingWords') = Len(fallingWords)
               /\ (Len(fallingInput) > 1 \/ ~ValidTarget(fallingWords, fallingTarget))
                    => fallingTarget' = fallingTarget]_vars

\* C8 witness: Backspace has just emptied the buffer; no target is held and
\* no live word is active, and the turret anchor shows that a target had been
\* committed in this session.
C8_Witness ==
    /\ lastMsg.type = "KeyBackspace"
    /\ fallingInput = <<>>
    /\ fallingTarget = -1
    /\ fallingWords # <<>>
    /\ ActiveIdx(fallingWords) = {}
    /\ fallingScore = 0
    /\ turretStartX = turretX

----------------------------------------------------------------------------
\* The difficulty functions called directly: a tick count is drawn, then
\* both functions are applied to it.  The game itself stands still.

DiffInit ==
    /\ state = "menu"
    /\ gameMode = "classic"
    /\ width = 0
    /\ height = 0
    /\ fallingWords = <<>>
    /\ fallingInput = <<>>
    /\ fallingTarget = 0
    /\ fallingLives = 0
    /\ fallingScore = 0
    /\ fallingSpeed = 0
    /\ fallingSpawnCD = 0
    /\ fallingTicks = 0
    /\ fallingGameOver = FALSE
    /\ fallingCharsTyped = 0
    /\ turretX = 0
    /\ turretStartX = 0
    /\ explosions = <<>>
    /\ laser = NoLaser
    /\ correctWords = 0
    /\ pendingTicks = 0
    /\ lastMsg = Msg("none", "", "none")
    /\ cues = <<>>
    /\ lastTick = NoTick
    /\ probe \in 0..MaxProbe
    /\ probeSpeed = -1
    /\ probeInterval = -1
    /\ CycleUnset
    /\ TypingUnset
    /\ ViewUnset

DiffEvaluate ==
    /\ probeSpeed = -1
    /\ probeSpeed' = fallingSpeedForTick(probe)
    /\ probeInterval' = fallingSpawnInterval(probe)
    /\ UNCHANGED <<state, gameMode, width, height, session, pendingTicks,
                   lastMsg, cues, lastTick, probe, cycleProbes, typing, view>>

DiffNext == DiffEvaluate

SpecDifficulty == DiffInit /\ [][DiffNext]_vars

Evaluated == probeSpeed # -1

\* C9: for all tick counts 0 <= t1 < t2 the speed at t1 is at most the speed
\* at t2 and the spawn interval at t1 is at least the one at t2; the speed
\* lies in [0.3, 1.5] and the spawn interval in [7, 20].
C9_DifficultyMonotoneAndBounded ==
    Evaluated =>
        /\ 30 <= probeSpeed /\ probeSpeed <= 150
        /\ 7 <= probeInterval /\ probeInterval <= 20
        /\ \A t1 \in 0..(probe - 1) :
              /\ fallingSpeedForTick(t1) <= probeSpeed
              /\ fallingSpawnInterval(t1) >= probeInterval

\* C9 witness: the functions were applied to a tick count late enough for
\* both the cap and the floor to be in force.
C9_Witness ==
    /\ Evaluated
    /\ probe = MaxProbe
    /\ probeSpeed = 150
    /\ probeInterval = 7

\* C10 as stated: speed 0.3 at the start; 0.35 and interval 18 at tick count
\* 67; speed 1.5 and interval 7 at tick count 670.
C10_Original ==
    Evaluated =>
        /\ probe = 0 => probeSpeed = 30
        /\ probe = 67 => (probeSpeed = 35 /\ probeInterval = 18)
        /\ probe = 670 => (probeSpeed = 150 /\ probeInterval = 7)

\* C10 amended: speed 0.3 at the start; 0.35 and interval 18 at tick count
\* 67; at tick count 670 the speed is 0.8 and the interval 7 (floored); the
\* speed is 1.5 (capped) exactly from tick count 1608 on.
C10_ScenarioValues ==
    Evaluated =>
        /\ probe = 0 => probeSpeed = 30
        /\ probe = 67 => (probeSpeed = 35 /\ probeInterval = 18)
        /\ probe = 670 => (probeSpeed = 80 /\ probeInterval = 7)
        /\ probeSpeed = 150 <=> probe >= 1608

\* C10 witness: the functions were applied to tick count 670.
C10_Witness ==
    /\ Evaluated
    /\ probe = 670
    /\ probeSpeed = 80
    /\ probeInterval = 7

----------------------------------------------------------------------------
\* fallingTick called on session states that are built directly, the way a
\* unit test builds a model value: up to two words near the top of the play
\* area and a spawn due on the next tick.  (In play a spawn always finds the
\* previous word below row 3: between two spawns a word falls at least
\* 7 * 0.65 rows, so only such states exercise the overlap test.)

PlaceWord(word, x, y) ==
    [word |-> word, x |-> x, y |-> y, typed |-> 0, active |-> FALSE]

\* Live lists of a session: oldest word first, hence lowest first
PlaceLists(w) ==
    LET W == UNION { { PlaceWord(word, x, y) :
                           x \in SpawnColumns(w, word), y \in PlaceRows } :
                     word \in Vocabulary }
    IN  { <<>> } \cup { <<a>> : a \in W }
        \cup { p \in W \X W : p[2].y < p[1].y }

PlaceInit ==
    /\ state = "falling"
    /\ gameMode = "falling"
    /\ \E sz \in PlaceSizes : width = sz[1] /\ height = sz[2]
    /\ fallingWords \in PlaceLists(width)
    /\ fallingInput = <<>>
    /\ fallingTarget = -1
    /\ fallingLives = 3
    /\ fallingScore = 0
    /\ fallingTicks = MaxTicks - PlaceRun
    /\ fallingSpeed = fallingSpeedForTick(fallingTicks)
    /\ fallingSpawnCD = 1
    /\ fallingGameOver = FALSE
    /\ fallingCharsTyped = 0
    /\ turretX = width \div 2
    /\ turretStartX = 0
    /\ explosions = <<>>
    /\ laser = NoLaser
    /\ correctWords = 0
    /\ pendingTicks = 1
    /\ lastMsg = Msg("KeyEnter", "", "updateMenu")
    /\ cues = <<>>
    /\ lastTick = NoTick
    /\ probe = 0
    /\ probeSpeed = -1
    /\ probeInterval = -1
    /\ CycleUnset
    /\ TypingUnset
    /\ ViewUnset

PlaceNext == FallingTick

SpecPlacement == PlaceInit /\ [][PlaceNext]_vars

\* At least one empty column lies between the spans of a and b
Separated(a, b) ==
    \/ rightEdge(a) + 1 <= leftEdge(b)
    \/ rightEdge(b) + 1 <= leftEdge(a)

\* C11: whenever a tick places a word, the span of the new word, wings
\* included, is separated by at least one empty column from the span of
\* every live word whose row is <= 3 at that moment; when the attempts all
\* collide, the tick adds no word.
C11_PlacementKeepsGap ==
    [][TickStep =>
          LET n == Len(fallingWords')
              gone == Breached(Advance(fallingWords, fallingSpeed),
                               playHeightOf(height))
          IN  /\ lastTick'.spawn = "placed"
                    => /\ n = Len(fallingWords) - Cardinality(gone) + 1
                       /\ fallingWords'[n].y = 0
                       /\ \A i \in 1..(n - 1) :
                              fallingWords'[i].y <= 300
                              => Separated(fallingWords'[n], fallingWords'[i])
              /\ lastTick'.spawn = "failed"
                    => /\ n = Len(fallingWords) - Cardinality(gone)
                       /\ \A i \in 1..n : fallingWords'[i].y > 0]_vars

\* C11 witness: a word has just been placed while another word was still
\* within the top three rows.
C11_Witness ==
    /\ lastTick.spawn = "placed"
    /\ Len(fallingWords) >= 2
    /\ fallingWords[Len(fallingWords)].y = 0
    /\ \E i \in 1..(Len(fallingWords) - 1) : fallingWords[i].y <= 300

C28_PlacedColumnInRange ==
    [][(TickStep /\ lastTick'.spawn = "placed") =>
          LET fw == fallingWords'[Len(fallingWords')]
          IN  /\ fw.x >= edgePadding
              /\ fw.x <= width - Len(fw.word) - edgePadding]_vars

----------------------------------------------------------------------------
\* Cues, restart, lives, typed progress and the target across a tick (Spec)

\* C13 as stated: processing a single tick emits at most one audio cue from
\* {hit, destroy, game-over}, the tick that takes the last life included.
C13_Original ==
    [][lastMsg'.type = "fallingTick" => Len(cues') <= 1]_vars

\* C13 amended: a tick emits no cue, or the hit cue alone, or - exactly on
\* the tick that takes the last life - the hit cue followed by the game-over
\* cue; it never emits the destroy cue.
C13_TickCues ==
    [][lastMsg'.type = "fallingTick" =>
          /\ cues' \in { <<>>, <<"hit">>, <<"hit", "gameOver">> }
          /\ Len(cues') = 2 <=> (~fallingGameOver /\ fallingGameOver')]_vars

\* C13 witness: the tick that took the last life has just returned both
\* cues.
C13_Witness ==
    /\ cues = <<"hit", "gameOver">>
    /\ fallingLives = 0
    /\ pendingTicks = 0

\* The step started a session: Tab or Enter handled with the falling screen
\* as the result
RestartStep == lastMsg'.type \in {"KeyTab", "KeyEnter"} /\ state' = "falling"

\* C14: a restart (Tab during play, Tab or Enter after game over, Enter on
\* the menu in falling mode) yields no words, no explosions, no laser, an
\* empty input buffer, target -1, 3 lives, score 0, speed 0.3, spawn
\* countdown 0, 0 elapsed ticks and gameOver false, whatever the state
\* before.
C14_RestartResets ==
    [][RestartStep =>
          /\ fallingWords' = <<>>
          /\ explosions' = <<>>
          /\ laser' = NoLaser
          /\ fallingInput' = <<>>
          /\ fallingTarget' = -1
          /\ fallingLives' = 3
          /\ fallingScore' = 0
          /\ fallingSpeed' = 30
          /\ fallingSpawnCD' = 0
          /\ fallingTicks' = 0
          /\ fallingGameOver' = FALSE]_vars

\* C14 witness: Enter has just restarted a game that was over, and the
\* session is fresh.
C14_Witness ==
    /\ lastMsg = Msg("KeyEnter", "", "handleGameOverKey")
    /\ fallingLives = 3
    /\ fallingWords = <<>>
    /\ ~fallingGameOver

\* C15: in every state of a session 0 <= lives <= 3 and gameOver is true
\* exactly when lives = 0; lives never increases except by a restart.
C15_LivesAndGameOver ==
    [][/\ state' = "falling"
            => /\ fallingLives' \in 0..3
               /\ fallingGameOver' <=> fallingLives' = 0
       /\ fallingLives' > fallingLives
            => (RestartStep /\ fallingLives' = 3)]_vars

\* C15 witness: the tick that took the last life has just ended the game.
C15_Witness ==
    /\ state = "falling"
    /\ fallingGameOver
    /\ fallingLives = 0
    /\ lastMsg = Msg("fallingTick", "", "fallingTick")

\* C16: whenever a word is active, its typed count equals the length of the
\* input buffer, also after a key that missed before the target was
\* acquired.
C16_TypedEqualsInputLength ==
    \A i \in ActiveIdx(fallingWords) :
        fallingWords[i].typed = Len(fallingInput)

\* The row the target word reaches when the next tick advances it
TargetRowAfterAdvance == IntRow(At(fallingWords, fallingTarget).y + fallingSpeed)

\* C19: when the active target breaches the boundary in a tick that does
\* not end the game, after the tick the input buffer is empty, the target
\* index is -1 and no live word is active.
C19_BreachedTargetIsReleased ==
    [][( /\ TickStep
         /\ ValidTarget(fallingWords, fallingTarget)
         /\ At(fallingWords, fallingTarget).active
         /\ TargetRowAfterAdvance >= playHeightOf(height)
         /\ ~fallingGameOver' )
       => /\ fallingInput' = <<>>
          /\ fallingTarget' = -1
          /\ ActiveIdx(fallingWords') = {}]_vars

\* C19 witness: a tick has just taken a life for the active target and the
\* game goes on.
C19_Witness ==
    /\ lastTick.lostTarget
    /\ ~fallingGameOver
    /\ fallingLives \in 1..2
    /\ fallingInput = <<>>
    /\ fallingTarget = -1

\* C20: when a tick removes only words other than the target (or none), the
\* target is preserved: after the tick the target index refers to the same
\* word (same text, still active, same typed count, one step lower), shifted
\* by the number of words removed before it, and the input buffer is
\* unchanged.
C20_TargetSurvivesTick ==
    [][( /\ TickStep
         /\ ValidTarget(fallingWords, fallingTarget)
         /\ TargetRowAfterAdvance < playHeightOf(height) )
       => LET a == At(fallingWords, fallingTarget)
              gone == {i \in Breached(Advance(fallingWords, fallingSpeed),
                                      playHeightOf(height)) :
                          i < fallingTarget + 1}
          IN  /\ ValidTarget(fallingWords', fallingTarget')
              /\ At(fallingWords', fallingTarget')
                    = [a EXCEPT !.y = a.y + fallingSpeed]
              /\ At(fallingWords', fallingTarget').active
              /\ fallingInput' = fallingInput
              /\ ~fallingGameOver'
                    => fallingTarget' = fallingTarget - Cardinality(gone)]_vars

\* C20 witness: a tick has just taken a life for another word while the
\* target is still held with its typed progress.
C20_Witness ==
    /\ cues = <<"hit">>
    /\ lastMsg = Msg("fallingTick", "", "fallingTick")
    /\ ValidTarget(fallingWords, fallingTarget)
    /\ At(fallingWords, fallingTarget).active
    /\ At(fallingWords, fallingTarget).typed = Len(fallingInput)
    /\ fallingInput # <<>>

----------------------------------------------------------------------------
\* The day/night functions called directly: a tick count is drawn, then
\* cycleColors is applied to it and to the tick count one full cycle later,
\* and getCelestialBody tells whether the body is the sun.

CycleInit ==
    /\ state = "menu"
    /\ gameMode = "classic"
    /\ width = 0
    /\ height = 0
    /\ fallingWords = <<>>
    /\ fallingInput = <<>>
    /\ fallingTarget = 0
    /\ fallingLives = 0
    /\ fallingScore = 0
    /\ fallingSpeed = 0
    /\ fallingSpawnCD = 0
    /\ fallingTicks = 0
    /\ fallingGameOver = FALSE
    /\ fallingCharsTyped = 0
    /\ turretX = 0
    /\ turretStartX = 0
    /\ explosions = <<>>
    /\ laser = NoLaser
    /\ correctWords = 0
    /\ pendingTicks = 0
    /\ lastMsg = Msg("none", "", "none")
    /\ cues = <<>>
    /\ lastTick = NoTick
    /\ probe = 0
    /\ probeSpeed = -1
    /\ probeInterval = -1
    /\ cycleTick \in 0..MaxCycleTick
    /\ palette = <<>>
    /\ paletteNext = <<>>
    /\ isDay = FALSE
    /\ TypingUnset
    /\ ViewUnset

CycleEvaluate ==
    /\ palette = <<>>
    /\ palette' = cycleColors(cycleTick)
    /\ paletteNext' = cycleColors(cycleTick + fullCycleTicks)
    /\ isDay' = celestialIsDay(cycleTick)
    /\ UNCHANGED <<state, gameMode, width, height, session, pendingTicks,
                   lastMsg, cues, lastTick, probes, cycleTick, typing, view>>

CycleNext == CycleEvaluate

SpecCycle == CycleInit /\ [][CycleNext]_vars

CycleEvaluated == palette # <<>>

\* C17: the palette is periodic in the tick count with period 800:
\* cycleColors(t) equals cycleColors(t + 800) in all seven colours for every
\* t >= 0, and the half is day exactly when t mod 800 < 400.
C17_PalettePeriodic ==
    CycleEvaluated =>
        /\ DOMAIN palette =
              {"dim", "text", "alien", "shield", "accent", "hint", "bg"}
        /\ \A f \in DOMAIN palette : palette[f] = paletteNext[f]
        /\ isDay <=> (cycleTick % 800 < 400)

\* C17 witness: the functions were applied to a tick count of the second
\* cycle that lies in the blend from sunset to night.
C17_Witness ==
    /\ CycleEvaluated
    /\ cycleTick = 1216
    /\ ~isDay
    /\ palette.bg = <<90, 50, 25>>

----------------------------------------------------------------------------
\* The classic typing test: updateTyping and processKeypress, from the state
\* initTypingState leaves.  wordIndex and charIndex are 0-based as in the
\* source; typingInput[wordIndex + 1] is m.input[m.wordIndex].

\* m.input = make([][]rune, len(words))
EmptyInput(ws) == [i \in DOMAIN ws |-> <<>>]

ClassicInit ==
    /\ state = "typing"
    /\ gameMode = "classic"
    /\ \E sz \in Sizes : width = sz[1] /\ height = sz[2]
    /\ fallingWords = <<>>
    /\ fallingInput = <<>>
    /\ fallingTarget = 0
    /\ fallingLives = 0
    /\ fallingScore = 0
    /\ fallingSpeed = 0
    /\ fallingSpawnCD = 0
    /\ fallingTicks = 0
    /\ fallingGameOver = FALSE
    /\ fallingCharsTyped = 0
    /\ turretX = 0
    /\ turretStartX = 0
    /\ explosions = <<>>
    /\ laser = NoLaser
    /\ correctWords = 0
    /\ pendingTicks = 0
    /\ lastMsg = Msg("KeyEnter", "", "updateMenu")
    /\ cues = <<>>
    /\ lastTick = NoTick
    /\ probe = 0
    /\ probeSpeed = -1
    /\ probeInterval = -1
    /\ CycleUnset
    /\ ViewUnset
    /\ typingWords \in ClassicWordLists
    /\ typingInput = EmptyInput(typingWords)
    /\ wordIndex = 0
    /\ charIndex = 0
    /\ timerStarted = FALSE

\* What a classic key leaves alone
ClassicFrame ==
    /\ Quiet
    /\ UNCHANGED <<gameMode, width, height, session, pendingTicks, probes,
                   cycleProbes, view>>

\* processKeypress, tea.KeyEsc; updateTyping has started the timer if this
\* was the first key
ClassicEsc ==
    /\ state = "typing"
    /\ state' = "menu"
    /\ timerStarted' = TRUE
    /\ lastMsg' = Msg("KeyEsc", "", "processKeypress")
    /\ UNCHANGED <<typingWords, typingInput, wordIndex, charIndex>>
    /\ ClassicFrame

\* processKeypress, tea.KeyTab: initTypingState
ClassicTab ==
    /\ state = "typing"
    /\ state' = "typing"
    /\ typingWords' \in ClassicWordLists
    /\ typingInput' = EmptyInput(typingWords')
    /\ wordIndex' = 0
    /\ charIndex' = 0
    /\ timerStarted' = FALSE
    /\ lastMsg' = Msg("KeyTab", "", "processKeypress")
    /\ ClassicFrame

\* a Backspace that moves the cursor but leaves the rune in the input
ClassicBackspace_keepRune ==
    /\ state = "typing"
    /\ IF charIndex > 0
       THEN /\ charIndex' = charIndex - 1
            /\ typingInput' = typingInput
       ELSE UNCHANGED <<charIndex, typingInput>>
    /\ timerStarted' = TRUE
    /\ lastMsg' = Msg("KeyBackspace", "", "processKeypress")
    /\ UNCHANGED <<state, typingWords, wordIndex>>
    /\ ClassicFrame

\* processKeypress, tea.KeyBackspace
ClassicBackspace ==
    /\ state = "typing"
    /\ IF charIndex > 0
       THEN /\ charIndex' = charIndex - 1
            /\ typingInput' =
                 [typingInput EXCEPT ![wordIndex + 1] = SubSeq(@, 1, charIndex - 1)]
       ELSE UNCHANGED <<charIndex, typingInput>>
    /\ timerStarted' = TRUE
    /\ lastMsg' = Msg("KeyBackspace", "", "processKeypress")
    /\ UNCHANGED <<state, typingWords, wordIndex>>
    /\ ClassicFrame

\* a Space that skips a word nothing was typed for
SpaceAdvances_untyped(ws, in, wi) == wi < Len(ws) - 1

\* The condition of the tea.KeySpace branch
SpaceAdvances(ws, in, wi) == Len(in[wi + 1]) > 0 /\ wi < Len(ws) - 1

\* processKeypress, tea.KeySpace
ClassicSpace ==
    /\ state = "typing"
    /\ IF SpaceAdvances(typingWords, typingInput, wordIndex)
       THEN /\ wordIndex' = wordIndex + 1
            /\ charIndex' = 0
       ELSE UNCHANGED <<wordIndex, charIndex>>
    /\ timerStarted' = TRUE
    /\ lastMsg' = Msg("KeySpace", "", "processKeypress")
    /\ UNCHANGED <<state, typingWords, typingInput>>
    /\ ClassicFrame

\* processKeypress, tea.KeyRunes with msg.Runes[0] = char
ClassicRunes(char) ==
    /\ state = "typing"
    /\ LET targetLen == Len(typingWords[wordIndex + 1])
       IN  IF charIndex < targetLen + maxWordOverflow
           THEN /\ typingInput' =
                     [typingInput EXCEPT ![wordIndex + 1] = Append(@, char)]
                /\ charIndex' = charIndex + 1
           ELSE UNCHANGED <<typingInput, charIndex>>
    /\ timerStarted' = TRUE
    /\ lastMsg' = Msg("KeyRunes", char, "processKeypress")
    /\ UNCHANGED <<state, typingWords, wordIndex>>
    /\ ClassicFrame

\* updateTyping, timer.TimeoutMsg: the timer runs once a key has started it
ClassicTimeout ==
    /\ state = "typing"
    /\ timerStarted
    /\ state' = "results"
    /\ lastMsg' = Msg("Timeout", "", "updateTyping")
    /\ UNCHANGED typing
    /\ ClassicFrame

ClassicNext ==
    \/ ClassicEsc
    \/ ClassicTab
    \/ ClassicBackspace
    \/ ClassicSpace
    \/ \E char \in Keys : ClassicRunes(char)
    \/ ClassicTimeout

SpecClassic == ClassicInit /\ [][ClassicNext]_vars

\* C18: in the classic test Backspace never moves the cursor into a previous
\* word (wordIndex is unchanged and at most the last rune of the current
\* word's input is removed), and Space advances wordIndex by exactly one
\* only when the current word has at least one typed rune and is not the
\* last word; otherwise Space changes nothing of the test.
C18_ClassicBackspaceAndSpace ==
    [][LET cur == typingInput[wordIndex + 1]
       IN  /\ lastMsg' = Msg("KeyBackspace", "", "processKeypress")
                => /\ wordIndex' = wordIndex
                   /\ typingWords' = typingWords
                   /\ \A i \in DOMAIN typingInput :
                          i # wordIndex + 1 => typingInput'[i] = typingInput[i]
                   /\ typingInput'[wordIndex + 1] =
                         IF cur = <<>> THEN <<>>
                         ELSE SubSeq(cur, 1, Len(cur) - 1)
           /\ lastMsg' = Msg("KeySpace", "", "processKeypress")
                => IF cur # <<>> /\ wordIndex + 1 < Len(typingWords)
                   THEN /\ wordIndex' = wordIndex + 1
                        /\ UNCHANGED <<typingWords, typingInput>>
                   ELSE UNCHANGED <<typingWords, typingInput, wordIndex,
                                    charIndex, state>>]_vars

\* C18 witness: Backspace was pressed in the second word and the cursor is
\* at the start of that word, with the first word's input still in place.
C18_Witness ==
    /\ lastMsg = Msg("KeyBackspace", "", "processKeypress")
    /\ wordIndex = 1
    /\ charIndex = 0
    /\ typingInput[1] # <<>>
    /\ typingInput[2] = <<>>

----------------------------------------------------------------------------
\* The input buffer and the target (Spec)

\* C21: whenever no target is committed (target index -1) during play, the
\* input buffer is empty: the buffer only ever holds characters typed
\* toward the active target.
C21_NoTargetNoInput ==
    (state = "falling" /\ ~fallingGameOver /\ fallingTarget = -1)
        => fallingInput = <<>>

\* C22: a character key that arrives with no target and matches the first
\* character of no non-active word changes nothing except appending that
\* character to the input buffer: no word becomes active, and words, score,
\* lives, turret and effects are unchanged.
C22_MissOnlyAppends ==
    [][\A c \in Keys :
          ( /\ RunesStep(c)
            /\ fallingTarget = -1
            /\ Candidates(fallingWords, c) = {} )
          => /\ fallingInput' = Append(fallingInput, c)
             /\ ActiveIdx(fallingWords') = ActiveIdx(fallingWords)
             /\ UNCHANGED <<fallingWords, fallingTarget, fallingScore,
                            fallingLives, fallingCharsTyped, turretX,
                            turretStartX, explosions, laser, fallingSpeed,
                            fallingSpawnCD, fallingTicks, fallingGameOver,
                            pendingTicks, state>>
             /\ cues' = <<>>]_vars

\* C22 witness: a key has just missed every live word: it sits in the
\* buffer, no target is held and no word is active.
C22_Witness ==
    /\ lastMsg.type = "KeyRunes"
    /\ fallingInput = <<lastMsg.rune>>
    /\ fallingTarget = -1
    /\ fallingWords # <<>>
    /\ ActiveIdx(fallingWords) = {}
    /\ \A i \in DOMAIN fallingWords : fallingWords[i].word[1] # lastMsg.rune

\* C23: whenever a word is active, the input buffer is a prefix of that
\* word's text, so typed never exceeds the word's length and the first typed
\* characters of the word are exactly the characters in the buffer.
C23_InputIsPrefixOfTarget ==
    \A i \in ActiveIdx(fallingWords) :
        LET fw == fallingWords[i]
        IN  /\ Len(fallingInput) <= Len(fw.word)
            /\ SubSeq(fw.word, 1, Len(fallingInput)) = fallingInput
            /\ fw.typed <= Len(fw.word)

----------------------------------------------------------------------------
\* Character keys and ticks on boards that are built directly, the way a
\* unit test builds a model value: up to two words, one of them possibly a
\* step away from the boundary, on a terminal wide enough for the word
\* centres to differ from the turret's start column.  No spawn falls due.

BoardLists(w) ==
    LET W == UNION { { PlaceWord(word, x, y) :
                           x \in SpawnColumns(w, word), y \in BoardRows } :
                     word \in BoardVocabulary }
    IN  { <<>> } \cup { <<a>> : a \in W }
        \cup { p \in W \X W : p[2].y < p[1].y }

BoardInit ==
    /\ state = "falling"
    /\ gameMode = "falling"
    /\ \E sz \in BoardSizes : width = sz[1] /\ height = sz[2]
    /\ fallingWords \in BoardLists(width)
    /\ fallingInput = <<>>
    /\ fallingTarget = -1
    /\ fallingLives \in 1..3
    /\ fallingScore = 0
    /\ fallingTicks = MaxTicks - PlaceRun
    /\ fallingSpeed = fallingSpeedForTick(fallingTicks)
    /\ fallingSpawnCD = fallingSpawnInterval(fallingTicks)
    /\ fallingGameOver = FALSE
    /\ fallingCharsTyped = 0
    /\ turretX = width \div 2
    /\ turretStartX = 0
    /\ explosions = <<>>
    /\ laser = NoLaser
    /\ correctWords = 0
    /\ pendingTicks = 1
    /\ lastMsg = Msg("KeyEnter", "", "updateMenu")
    /\ cues = <<>>
    /\ lastTick = NoTick
    /\ probe = 0
    /\ probeSpeed = -1
    /\ probeInterval = -1
    /\ CycleUnset
    /\ TypingUnset
    /\ ViewUnset

BoardNext ==
    \/ FallingTick
    \/ \E char \in BoardKeys : FallingRunes(char)

SpecBoard == BoardInit /\ [][BoardNext]_vars

\* x lies between a and b, the ends included
Between(a, x, b) == (a <= x /\ x <= b) \/ (b <= x /\ x <= a)

\* C24: while a target is active, after every character key the turret
\* column lies between the anchored start column and the centre column of
\* the target word (inclusive), and at the key that destroys the word it
\* equals the centre column.
C24_TurretBetweenStartAndCentre ==
    [][\A c \in BoardKeys :
          RunesStep(c) =>
             /\ ValidTarget(fallingWords', fallingTarget')
                  => Between(turretStartX', turretX',
                             wordCenter(At(fallingWords', fallingTarget')))
             /\ fallingScore' = fallingScore + 1
                  => turretX' = laser'.x]_vars

----------------------------------------------------------------------------
\* Effects, order of a tick and spawn timing (Spec)

\* The explosions a tick keeps: those with more than one tick left, each
\* with one tick less
AgedExplosions(es) ==
    LET keep == SelectSeq(es, LAMBDA e : e.ticks > 1)
    IN  [i \in DOMAIN keep |-> [keep[i] EXCEPT !.ticks = @ - 1]]

\* C25: in every state between events each live explosion has
\* 1 <= ticks <= 4 and a live laser has 1 <= ticks <= 3; every tick takes
\* one from each count and discards what reaches zero, so an explosion is
\* gone by the 4th tick after its creation and a laser by the 3rd, and the
\* explosion phase index 4 - ticks is always in 0..3.
C25_EffectLifetimes ==
    [][/\ \A i \in DOMAIN explosions' :
              /\ explosions'[i].ticks \in 1..4
              /\ explodeDuration - explosions'[i].ticks \in 0..3
       /\ laser' # NoLaser => laser'.ticks \in 1..3
       /\ TickStep
            => /\ explosions' = AgedExplosions(explosions)
               /\ laser' = IF laser # NoLaser /\ laser.ticks > 1
                            THEN [laser EXCEPT !.ticks = @ - 1]
                            ELSE NoLaser]_vars

\* C25 witness: a tick has just discarded the laser of a destroyed word,
\* and the explosion is in its last phase.
C25_Witness ==
    /\ lastMsg = Msg("fallingTick", "", "fallingTick")
    /\ fallingScore >= 1
    /\ laser = NoLaser
    /\ Len(explosions) = 1
    /\ explosions[1].ticks = 1

\* C26: within one tick the words advance by the speed computed at the end
\* of the previous tick, the breach check follows the advance, and the
\* spawn follows the breach check: when the tick does not end the game the
\* live list is the advanced words that stayed above the boundary row, in
\* order, followed by the spawned word if there is one, which still has
\* y = 0 and took no life.
C26_AdvanceBreachSpawn ==
    [][TickStep =>
          LET ph    == playHeightOf(height)
              moved == [i \in DOMAIN fallingWords |->
                           [fallingWords[i] EXCEPT !.y = @ + fallingSpeed]]
              above == SelectSeq(moved, LAMBDA w : IntRow(w.y) < ph)
          IN  /\ fallingSpeed = fallingSpeedForTick(fallingTicks)
              /\ ~fallingGameOver'
                   => /\ fallingLives' = fallingLives - (Len(moved) - Len(above))
                      /\ IF lastTick'.spawn = "placed"
                         THEN /\ Len(fallingWords') = Len(above) + 1
                              /\ SubSeq(fallingWords', 1, Len(above)) = above
                              /\ fallingWords'[Len(above) + 1].y = 0
                         ELSE fallingWords' = above]_vars

\* C26 witness: a tick has just spawned a word, still at y = 0, behind a
\* word that has been advancing.
C26_Witness ==
    /\ lastTick.spawn = "placed"
    /\ Len(fallingWords) = 2
    /\ fallingWords[2].y = 0
    /\ fallingWords[1].y > 0
    /\ fallingSpeed = 30

\* C27: the first tick of every session attempts a spawn, and after a spawn
\* at tick count t the next attempt happens exactly fallingSpawnInterval(t)
\* ticks later, provided the game is not over: between attempts the tick
\* count plus the countdown stays put, and an attempt is made exactly when
\* the tick count reaches it.
C27_SpawnTiming ==
    [][(TickStep /\ ~fallingGameOver') =>
          /\ fallingTicks = 0 => lastTick'.spawn # "none"
          /\ lastTick'.spawn = "none"
               => /\ fallingSpawnCD' >= 1
                  /\ fallingTicks' + fallingSpawnCD'
                        = fallingTicks + fallingSpawnCD
          /\ lastTick'.spawn # "none"
               => /\ fallingTicks > 0
                       => fallingTicks' = fallingTicks + fallingSpawnCD
                  /\ fallingSpawnCD' = fallingSpawnInterval(fallingTicks')]_vars

\* C27 witness: the second spawn of a session has just happened, one spawn
\* interval after the first tick.
C27_Witness ==
    /\ lastTick.spawn = "placed"
    /\ fallingTicks = 1 + fallingSpawnInterval(1)
    /\ ~fallingGameOver

\* C30: after Esc has returned from the falling mode to the menu, a tick
\* message that was already in flight changes no state and schedules no
\* further tick: the session, the screen and the size stay as they are, no
\* cue is emitted, and one tick fewer is in flight.
C30_StaleTickIsDropped ==
    [][(lastMsg'.type = "fallingTick" /\ state = "menu") =>
          /\ UNCHANGED <<state, gameMode, width, height, session>>
          /\ cues' = <<>>
          /\ pendingTicks' = pendingTicks - 1]_vars

\* C30 witness: the last tick of a session left with Esc has arrived at the
\* menu; the session had run and was not over, and no tick is in flight.
C30_Witness ==
    /\ state = "menu"
    /\ lastMsg = Msg("fallingTick", "", "updateMenu")
    /\ pendingTicks = 0
    /\ fallingTicks >= 1
    /\ fallingLives >= 1
    /\ ~fallingGameOver

\* The step handled a character key in handleFallingKey
AnyRunesStep ==
    /\ lastMsg'.type = "KeyRunes"
    /\ lastMsg'.by = "handleFallingKey"

\* How many times the cue c is in the batch cs
CueCount(cs, c) == Cardinality({i \in DOMAIN cs : cs[i] = c})

\* C29: a tick emits the hit cue if and only if lives decreased during that
\* tick, once however many words breached; it emits the game-over cue if
\* and only if that tick set gameOver; it never emits the destroy cue.  The
\* destroy cue is emitted only by the key event that completes a word, and
\* that event emits it.
C29_CuesMatchEvents ==
    [][/\ lastMsg'.type = "fallingTick"
            => /\ CueCount(cues', "hit")
                    = (IF fallingLives' < fallingLives THEN 1 ELSE 0)
               /\ CueCount(cues', "gameOver")
                    = (IF ~fallingGameOver /\ fallingGameOver' THEN 1 ELSE 0)
               /\ CueCount(cues', "destroy") = 0
               /\ Len(cues') = CueCount(cues', "hit") + CueCount(cues', "gameOver")
       /\ CueCount(cues', "destroy") > 0
            => /\ AnyRunesStep
               /\ fallingScore' = fallingScore + 1
               /\ Len(fallingWords') = Len(fallingWords) - 1
       /\ (AnyRunesStep /\ fallingScore' = fallingScore + 1)
            => cues' = <<"destroy">>]_vars

\* C29 witness: two words breached in one tick that did not end the game,
\* and the tick emitted one hit cue.
C29_Witness ==
    /\ lastMsg = Msg("fallingTick", "", "fallingTick")
    /\ lastTick.livesLost = 2
    /\ cues = <<"hit">>
    /\ ~fallingGameOver

----------------------------------------------------------------------------
\* Keys after game over, resize, score and tick count (Spec)

\* C31: while gameOver is true, character keys, Backspace and Space leave
\* the whole session state unchanged and schedule nothing; Tab and Enter
\* restart the session and schedule one tick; Esc returns to the menu and
\* leaves the session as it is.
C31_GameOverKeys ==
    [][(state = "falling" /\ fallingGameOver) =>
          /\ lastMsg'.type \in {"KeyRunes", "KeyBackspace", "KeySpace"}
               => /\ UNCHANGED <<state, gameMode, width, height, session,
                                 pendingTicks>>
                  /\ cues' = <<>>
          /\ lastMsg'.type \in {"KeyTab", "KeyEnter"}
               => /\ state' = "falling"
                  /\ ~fallingGameOver'
                  /\ fallingLives' = 3
                  /\ fallingWords' = <<>>
                  /\ pendingTicks' = pendingTicks + 1
          /\ lastMsg'.type = "KeyEsc"
               => /\ state' = "menu"
                  /\ UNCHANGED <<session, pendingTicks>>]_vars

\* C31 witness: a character key has been pressed on the game-over screen.
C31_Witness ==
    /\ state = "falling"
    /\ fallingGameOver
    /\ fallingLives <= 0
    /\ lastMsg.type = "KeyRunes"
    /\ lastMsg.by = "handleGameOverKey"

\* Ticks and resizes on the directly built boards
ResizeNext ==
    \/ FallingTick
    \/ \E sz \in ResizeSizes : Resize(sz[1], sz[2])

SpecResize == BoardInit /\ [][ResizeNext]_vars

\* C32: a resize event changes only the stored width and height: words,
\* effects, lives, score, tick count, speed, spawn countdown, input buffer,
\* target and turret are unchanged, no cue is emitted and no tick is
\* scheduled; the next tick uses the boundary row max(5, height - 6) of the
\* new height: when it does not end the game it takes one life for every
\* word whose advanced row is at or past that row and keeps the others.
C32_ResizeOnlySize ==
    [][/\ lastMsg'.type = "WindowSize"
            => /\ UNCHANGED <<state, gameMode, session, pendingTicks>>
               /\ cues' = <<>>
       /\ (TickStep /\ ~fallingGameOver')
            => LET row   == IF height - 6 > 5 THEN height - 6 ELSE 5
                   moved == [i \in DOMAIN fallingWords |->
                                [fallingWords[i] EXCEPT !.y = @ + fallingSpeed]]
                   above == SelectSeq(moved, LAMBDA w : w.y < 100 * row)
               IN  /\ fallingWords' = above
                   /\ fallingLives' = fallingLives - (Len(moved) - Len(above))]_vars

\* C32 witness: after the terminal grew to 14 rows a tick has left a word in
\* row 7, the boundary row of the 13-row terminal the board was built for.
C32_Witness ==
    /\ lastMsg = Msg("fallingTick", "", "fallingTick")
    /\ height = 14
    /\ lastTick.livesLost = 0
    /\ \E i \in DOMAIN fallingWords : IntRow(fallingWords[i].y) = 7

\* C33: within a session the score is the number of words destroyed by
\* typing since the last (re)start: a restart sets it to 0, a keystroke that
\* removes a word adds exactly 1, and nothing else - tick, breach,
\* Backspace, Space, missed key, Esc, resize - changes it; whenever gameOver
\* is true the recorded correctWords equals the score.
C33_ScoreCountsDestroyed ==
    [][/\ RestartStep => fallingScore' = 0
       /\ ~RestartStep
            => IF AnyRunesStep /\ Len(fallingWords') < Len(fallingWords)
               THEN fallingScore' = fallingScore + 1
               ELSE fallingScore' = fallingScore
       /\ fallingGameOver' => correctWords' = fallingScore']_vars

\* C33 witness: the session ended after one word had been destroyed by
\* typing, and the recorded result is 1.
C33_Witness ==
    /\ lastMsg = Msg("fallingTick", "", "fallingTick")
    /\ fallingGameOver
    /\ fallingScore = 1
    /\ correctWords = 1

\* C34: the tick count increases by exactly 1 for every tick processed
\* while the game is not over and changes otherwise only when a restart
\* sets it to 0; in every state of a session in which gameOver is false the
\* stored speed equals fallingSpeedForTick of the tick count (0.3 up to tick
\* 66, 0.35 from tick 67).
C34_TicksAndSpeed ==
    [][/\ TickStep => fallingTicks' = fallingTicks + 1
       /\ fallingTicks' # fallingTicks
            => \/ TickStep
               \/ RestartStep /\ fallingTicks' = 0
       /\ (state' = "falling" /\ ~fallingGameOver')
            => fallingSpeed' = (IF fallingTicks' < 67 THEN 30 ELSE 35)]_vars

\* C34 witness: tick 67 has been processed and raised the speed to 0.35.
C34_Witness ==
    /\ lastMsg = Msg("fallingTick", "", "fallingTick")
    /\ ~fallingGameOver
    /\ fallingTicks = 67
    /\ fallingSpeed = 35

----------------------------------------------------------------------------
\* The target index and the active flag

\* C35: in every reachable state of the falling screen the target index is
\* either -1 or a valid index into the live word list whose word is active,
\* and conversely any active word sits at the target index.
C35_TargetIndexValid ==
    state = "falling" =>
        /\ \/ fallingTarget = -1
           \/ /\ ValidTarget(fallingWords, fallingTarget)
              /\ At(fallingWords, fallingTarget).active
        /\ \A i \in DOMAIN fallingWords :
               fallingWords[i].active => fallingTarget = i - 1

\* C35 witness: a tick has removed a breached word that stood before the
\* target in the list; the target index has moved to 0 and still refers to
\* the active word.
C35_Witness ==
    /\ state = "falling"
    /\ lastMsg = Msg("fallingTick", "", "fallingTick")
    /\ lastTick.livesLost = 1
    /\ ~fallingGameOver
    /\ fallingTarget = 0
    /\ fallingWords # <<>>
    /\ fallingWords[1].active

----------------------------------------------------------------------------
\* A session followed from its start under fair tick delivery: the tick
\* command is re-armed by every tick that does not end the game
\* (updateFalling, line 109) and the runtime delivers a due timer message,
\* so a tick that stays possible is eventually processed.  Character keys
\* may or may not arrive.

FairInit ==
    /\ state = "falling"
    /\ gameMode = "falling"
    /\ \E sz \in Sizes : width = sz[1] /\ height = sz[2]
    /\ fallingWords = <<>>
    /\ fallingInput = <<>>
    /\ fallingTarget = -1
    /\ fallingLives = 3
    /\ fallingScore = 0
    /\ fallingSpeed = 30
    /\ fallingSpawnCD = 0
    /\ fallingTicks = 0
    /\ fallingGameOver = FALSE
    /\ fallingCharsTyped = 0
    /\ turretX = width \div 2
    /\ turretStartX = 0
    /\ explosions = <<>>
    /\ laser = NoLaser
    /\ correctWords = 0
    /\ pendingTicks = 1
    /\ lastMsg = Msg("KeyEnter", "", "updateMenu")
    /\ cues = <<>>
    /\ lastTick = NoTick
    /\ probe = 0
    /\ probeSpeed = -1
    /\ probeInterval = -1
    /\ CycleUnset
    /\ TypingUnset
    /\ ViewUnset

FairNext ==
    \/ FallingTick
    \/ \E char \in Keys : FallingRunes(char)

SpecFair == FairInit /\ [][FairNext]_vars /\ WF_vars(FallingTick)

\* The tick count at which the word w was spawned: a word has fallen 0.3
\* rows (0.35 from tick 67 on) in every tick since
BirthTick(w) == fallingTicks - (w.y \div 30)

\* The word spawned at tick count b is in the live list
Live(b) == \E i \in DOMAIN fallingWords : BirthTick(fallingWords[i]) = b

\* Tick counts at which a session spawns up to tick count n: the first tick,
\* and after a spawn at t the tick t + fallingSpawnInterval(t)
RECURSIVE SpawnTicksFrom(_, _)
SpawnTicksFrom(t, n) ==
    IF t > n THEN {}
    ELSE {t} \cup SpawnTicksFrom(t + fallingSpawnInterval(t), n)

SpawnTicks == SpawnTicksFrom(1, MaxTicks)

\* A key has been handled since the session started
KeyPressed == lastMsg.type = "KeyRunes"

\* C36: under fair tick delivery and while the game is not over, every live
\* word is eventually removed from the live list (the followed run ends at
\* tick count MaxTicks); and a session in which no key arrives eventually
\* reaches gameOver.
C36_WordsLeaveAndGameEnds ==
    /\ [](\A i \in DOMAIN fallingWords :
             BirthTick(fallingWords[i]) \in SpawnTicks)
    /\ \A b \in SpawnTicks :
           Live(b) ~> (~Live(b) \/ fallingGameOver \/ fallingTicks >= MaxTicks)
    /\ <>(fallingGameOver \/ KeyPressed)

\* C36 witness: the third breach of a session in which nothing was typed
\* has ended the game at tick 65.
C36_Witness ==
    /\ lastMsg = Msg("fallingTick", "", "fallingTick")
    /\ fallingGameOver
    /\ fallingTicks = 65
    /\ fallingScore = 0
    /\ fallingInput = <<>>
    /\ fallingLives = 0

----------------------------------------------------------------------------
\* viewFalling: the composited grid.  A write is a record [layer, row, col];
\* the writes of a frame are kept in the order the code makes them, and a
\* cell shows the layer of the last write to it.

playWidthOf(w) == IF w < 20 THEN 20 ELSE w

RECURSIVE Flatten(_)
Flatten(ss) == IF ss = <<>> THEN <<>> ELSE Head(ss) \o Flatten(Tail(ss))

\* The integers a..b in increasing order, as a for loop visits them
Range(a, b) == [i \in 1..(IF b >= a THEN b - a + 1 ELSE 0) |-> a + i - 1]

Write(layer, row, col) == [layer |-> layer, row |-> row, col |-> col]

InGrid(row, col, ph, pw) == row >= 0 /\ row < ph /\ col >= 0 /\ col < pw

\* sunSprites and moonSprites: offsets <<dx, dy>> in the order of the source
sunSprites ==
    << <<-1, -1>>, <<0, -1>>, <<1, -1>>, <<-2, 0>>, <<-1, 0>>, <<1, 0>>,
       <<2, 0>>, <<-1, 1>>, <<0, 1>>, <<1, 1>>, <<0, 0>> >>

moonSprites ==
    << <<0, -1>>, <<1, -1>>, <<0, 0>>, <<1, 0>>, <<0, 1>>, <<1, 1>> >>

\* renderCelestialOnGrid, called when m.dayCycle is on
CelestialWrites(body, ph, pw) ==
    IF ~body.shown THEN <<>>
    ELSE LET sprites == IF body.isDay THEN sunSprites ELSE moonSprites
             all == [i \in DOMAIN sprites |->
                        Write("celestial", body.y + sprites[i][2],
                              body.x + sprites[i][1])]
         IN  SelectSeq(all, LAMBDA w : InGrid(w.row, w.col, ph, pw))

\* a beam drawn from its top row on, rows above the grid included
LaserWrites_fromTop(l, ph, pw) ==
    IF l = NoLaser \/ ~(l.x >= 0 /\ l.x < pw) THEN <<>>
    ELSE LET last == (IF l.fromY < ph THEN l.fromY ELSE ph) - 1
             rows == Range(l.toY, last)
         IN  [i \in DOMAIN rows |-> Write("laser", rows[i], l.x)]

\* "Draw laser beam": rows toY .. min(fromY, playHeight) - 1 of column x,
\* those below 0 skipped
LaserWrites(l, ph, pw) ==
    IF l = NoLaser \/ ~(l.x >= 0 /\ l.x < pw) THEN <<>>
    ELSE LET last == (IF l.fromY < ph THEN l.fromY ELSE ph) - 1
             rows == SelectSeq(Range(l.toY, last), LAMBDA r : r >= 0)
         IN  [i \in DOMAIN rows |-> Write("laser", rows[i], l.x)]

\* explosionParticles: offsets <<dx, dy>> of the phase, in source order
explosionParticles(phase) ==
    CASE phase = 0 -> << <<0, 0>> >>
      [] phase = 1 -> << <<0, 0>>, <<-1, 0>>, <<1, 0>>, <<0, -1>> >>
      [] phase = 2 -> << <<-2, 0>>, <<2, 0>>, <<-1, -1>>, <<1, -1>>,
                         <<-1, 1>>, <<1, 1>>, <<0, 0>> >>
      [] OTHER     -> << <<-3, 0>>, <<3, 0>>, <<-2, -1>>, <<2, -1>>,
                         <<0, 0>> >>

\* "Draw explosions"
ExplosionWrites(es, ph, pw) ==
    Flatten([k \in DOMAIN es |->
        LET ps  == explosionParticles(explodeDuration - es[k].ticks)
            all == [i \in DOMAIN ps |->
                       Write("explosion", es[k].y + ps[i][2],
                             es[k].x + ps[i][1])]
        IN  SelectSeq(all, LAMBDA w : InGrid(w.row, w.col, ph, pw))])

\* len([]rune(buildHead(word, sprite))): two caps of two runes and the fill
headWidth(word) ==
    LET bodyWidth == wingWidth + Len(word) + wingWidth
        fillCount == IF bodyWidth - 4 < 0 THEN 0 ELSE bodyWidth - 4
    IN  2 + fillCount + 2

\* The head row and the body row (left wing, word text, right wing) of one
\* word
SpriteWritesOf(fw, ph, pw) ==
    LET bodyRow == IntRow(fw.y)
        headRow == bodyRow - 1
        cols(from, n) == SelectSeq(Range(from, from + n - 1),
                                   LAMBDA c : c >= 0 /\ c < pw)
        row(r, cs) == [i \in DOMAIN cs |-> Write("sprite", r, cs[i])]
        head == IF headRow >= 0 /\ headRow < ph
                THEN row(headRow, cols(fw.x - wingWidth, headWidth(fw.word)))
                ELSE <<>>
        body == IF bodyRow >= 0 /\ bodyRow < ph
                THEN row(bodyRow, cols(fw.x - wingWidth, wingWidth))
                     \o row(bodyRow, cols(fw.x, Len(fw.word)))
                     \o row(bodyRow, cols(fw.x + Len(fw.word), wingWidth))
                ELSE <<>>
    IN  head \o body

\* "Place 2-row alien sprites"
SpriteWrites(ws, ph, pw) ==
    Flatten([k \in DOMAIN ws |-> SpriteWritesOf(ws[k], ph, pw)])

\* a frame in which the beam is drawn last
FrameWrites_laserLast(body, l, es, ws, ph, pw) ==
    CelestialWrites(body, ph, pw) \o ExplosionWrites(es, ph, pw)
    \o SpriteWrites(ws, ph, pw) \o LaserWrites(l, ph, pw)

\* The writes of one frame in the order of the code
FrameWrites(body, l, es, ws, ph, pw) ==
    CelestialWrites(body, ph, pw) \o LaserWrites(l, ph, pw)
    \o ExplosionWrites(es, ph, pw) \o SpriteWrites(ws, ph, pw)

\* The grid after the writes: blank cells, then each write in turn
GridAfter(writes, ph, pw) ==
    [c \in (0..(ph - 1)) \X (0..(pw - 1)) |->
        LET idx == {i \in DOMAIN writes :
                       writes[i].row = c[1] /\ writes[i].col = c[2]}
        IN  IF idx = {} THEN "blank"
            ELSE writes[CHOOSE i \in idx : \A j \in idx : j <= i].layer]

\* The model values viewFalling is called on, built directly: a terminal
\* size; at most one destroyed word, whose laser and explosion have aged
\* 0 to 3 ticks, at a centre column inside, on the right edge of, or past
\* the grid (the terminal has shrunk) and in row 0 or 3, the laser's foot
\* at the boundary row of this or of a taller terminal; at most one live
\* word inside, across or past the right edge, in row 0, row 2 or on the
\* boundary row (left there by the game-ending tick); and a celestial body
\* or none.
ViewEffects(ph, pw) ==
    { [laser |-> NoLaser, explosions |-> <<>>] }
    \cup { [laser |-> IF age < laserDuration
                      THEN [x |-> c, fromY |-> foot, toY |-> r - 1,
                            ticks |-> laserDuration - age]
                      ELSE NoLaser,
            explosions |-> << [x |-> c, y |-> r,
                               ticks |-> explodeDuration - age] >>] :
            c \in {8, pw - 1, pw + 2}, r \in {0, 3}, age \in 0..3,
            foot \in {ph, ph + 2} }

ViewWords(ph, pw) ==
    { <<>> }
    \cup { << PlaceWord(word, x, y) >> :
             word \in BoardVocabulary, x \in {7, pw - 3, pw + 1},
             y \in {0, 200, 100 * ph} }

ViewBodies(ph, pw) ==
    { NoBody }
    \cup { [x |-> x, y |-> y, isDay |-> d, shown |-> TRUE] :
             x \in {2, 8, pw - 2}, y \in {1, ph - 2}, d \in BOOLEAN }

ViewInit ==
    /\ state = "falling"
    /\ gameMode = "falling"
    /\ \E sz \in ViewSizes : width = sz[1] /\ height = sz[2]
    /\ \E fx \in ViewEffects(playHeightOf(height), playWidthOf(width)) :
           /\ laser = fx.laser
           /\ explosions = fx.explosions
    /\ fallingWords \in ViewWords(playHeightOf(height), playWidthOf(width))
    /\ celestial \in ViewBodies(playHeightOf(height), playWidthOf(width))
    /\ grid = <<>>
    /\ gridWrites = <<>>
    /\ fallingInput = <<>>
    /\ fallingTarget = -1
    /\ fallingLives = 3
    /\ fallingScore = 0
    /\ fallingTicks = 1
    /\ fallingSpeed = fallingSpeedForTick(fallingTicks)
    /\ fallingSpawnCD = fallingSpawnInterval(fallingTicks)
    /\ fallingGameOver = FALSE
    /\ fallingCharsTyped = 0
    /\ turretX = width \div 2
    /\ turretStartX = 0
    /\ correctWords = 0
    /\ pendingTicks = 1
    /\ lastMsg = Msg("fallingTick", "", "fallingTick")
    /\ cues = <<>>
    /\ lastTick = NoTick
    /\ probe = 0
    /\ probeSpeed = -1
    /\ probeInterval = -1
    /\ CycleUnset
    /\ TypingUnset

\* viewFalling: the frame of the current model value
ViewFalling ==
    /\ state = "falling"
    /\ grid = <<>>
    /\ LET ph == playHeightOf(height)
           pw == playWidthOf(width)
       IN  /\ gridWrites' = FrameWrites(celestial, laser, explosions,
                                        fallingWords, ph, pw)
           /\ grid' = GridAfter(gridWrites', ph, pw)
    /\ UNCHANGED <<state, gameMode, width, height, session, pendingTicks,
                   lastMsg, cues, lastTick, probes, cycleProbes, typing,
                   celestial>>

ViewNext == ViewFalling

SpecView == ViewInit /\ [][ViewNext]_vars

Composited == grid # <<>>

\* The cell <<row, col>> lies under a character of a word sprite
UnderSprite(row, col) ==
    \E k \in DOMAIN fallingWords :
        LET fw == fallingWords[k]
        IN  \/ /\ row = IntRow(fw.y)
               /\ col \in (fw.x - 2)..(fw.x + Len(fw.word) + 1)
            \/ /\ row = IntRow(fw.y) - 1
               /\ col \in (fw.x - 2)..(fw.x - 2 + headWidth(fw.word) - 1)

\* The cell lies under a particle of an explosion in its current phase
UnderExplosion(row, col) ==
    \E k \in DOMAIN explosions :
        LET ps == explosionParticles(4 - explosions[k].ticks)
        IN  \E i \in DOMAIN ps : /\ col = explosions[k].x + ps[i][1]
                                 /\ row = explosions[k].y + ps[i][2]

\* The cell lies on the laser beam
UnderLaser(row, col) ==
    /\ laser # NoLaser
    /\ col = laser.x
    /\ laser.toY <= row
    /\ row < laser.fromY

\* The cell lies under a character of the sun or the moon
UnderCelestial(row, col) ==
    /\ celestial.shown
    /\ LET sp == IF celestial.isDay THEN sunSprites ELSE moonSprites
       IN  \E i \in DOMAIN sp : /\ col = celestial.x + sp[i][1]
                                /\ row = celestial.y + sp[i][2]

\* C37: in the composited grid a cell covered by several layers shows the
\* latest layer in the order background, celestial body, laser, explosion
\* particles, word sprites: a word-sprite character always overwrites an
\* explosion particle or laser segment in the same cell, and an explosion
\* particle overwrites a laser segment.
C37_LayerOrder ==
    Composited =>
        \A c \in DOMAIN grid :
            grid[c] = IF UnderSprite(c[1], c[2]) THEN "sprite"
                      ELSE IF UnderExplosion(c[1], c[2]) THEN "explosion"
                      ELSE IF UnderLaser(c[1], c[2]) THEN "laser"
                      ELSE IF UnderCelestial(c[1], c[2]) THEN "celestial"
                      ELSE "blank"

\* C37 witness: a frame in which one cell lies under a word character, an
\* explosion particle and the laser and shows the word, and another lies
\* under an explosion particle and the laser and shows the particle.
C37_Witness ==
    /\ Composited
    /\ \E c \in DOMAIN grid :
           /\ UnderSprite(c[1], c[2])
           /\ UnderExplosion(c[1], c[2])
           /\ UnderLaser(c[1], c[2])
           /\ grid[c] = "sprite"
    /\ \E c \in DOMAIN grid :
           /\ ~UnderSprite(c[1], c[2])
           /\ UnderExplosion(c[1], c[2])
           /\ UnderLaser(c[1], c[2])
           /\ grid[c] = "explosion"

\* C38: the grid always has max(5, height - 6) rows and max(20, width)
\* columns, and every write by the celestial, laser, explosion and sprite
\* layers is to a cell inside those bounds, for any entity coordinates
\* (negative rows, columns past the width, a laser whose top row is
\* negative): out-of-range cells are skipped.
C38_WritesInsideGrid ==
    Composited =>
        LET rows == IF height - 6 > 5 THEN height - 6 ELSE 5
            cols == IF width > 20 THEN width ELSE 20
        IN  /\ DOMAIN grid = (0..(rows - 1)) \X (0..(cols - 1))
            /\ \A i \in DOMAIN gridWrites :
                   /\ gridWrites[i].row \in 0..(rows - 1)
                   /\ gridWrites[i].col \in 0..(cols - 1)

\* C38 witness: a frame with a laser whose top row is -1, an explosion with
\* a particle in row -1, and a word that reaches past the last column; the
\* parts inside the grid were drawn.
C38_Witness ==
    /\ Composited
    /\ laser # NoLaser
    /\ laser.toY = -1
    /\ \E k \in DOMAIN explosions : UnderExplosion(-1, explosions[k].x)
    /\ \E k \in DOMAIN fallingWords :
           fallingWords[k].x + Len(fallingWords[k].word) + 1
               >= playWidthOf(width)
    /\ \E i, j \in DOMAIN gridWrites :
           /\ gridWrites[i].layer = "laser"
           /\ gridWrites[j].layer = "sprite"

----------------------------------------------------------------------------
\* The cursor of the classic typing test (SpecClassic)

\* C39: in the classic typing test, in every reachable state charIndex
\* equals the length of input[wordIndex], the input typed for any word
\* never exceeds that word's length plus 5 runes, there is one input per
\* word, and wordIndex stays within [0, len(words) - 1].
C39_ClassicCursor ==
    /\ wordIndex \in 0..(Len(typingWords) - 1)
    /\ Len(typingInput) = Len(typingWords)
    /\ charIndex = Len(typingInput[wordIndex + 1])
    /\ \A i \in DOMAIN typingInput :
           Len(typingInput[i]) <= Len(typingWords[i]) + 5

\* C39 witness: both words have been typed to the overflow limit and the
\* cursor is at the end of the last word, which Space does not leave.
C39_Witness ==
    /\ state = "typing"
    /\ lastMsg = Msg("KeySpace", "", "processKeypress")
    /\ wordIndex = Len(typingWords) - 1
    /\ charIndex = Len(typingWords[wordIndex + 1]) + 5
    /\ \A i \in DOMAIN typingInput :
           Len(typingInput[i]) = Len(typingWords[i]) + 5

====
